---------------------------- MODULE Spec2Model ----------------------------
(***************************************************************************)
(* Model of the EPUB reassembly of grawlix: Epub._download_epub_in_parts   *)
(* and its helpers (src/grawlix/output/epub.py).                           *)
(*                                                                         *)
(* Representation.  A text (a str or a bytes value: a path, a stylesheet,  *)
(* a page body) is a sequence of tokens; a token is a string that is       *)
(* either one delimiter the code looks at ("{", "}", "/", "#", a quote, a  *)
(* blank, a line feed, ...) or a word holding none of them, so that        *)
(* split, strip, endswith, len and the regular expressions of the code act *)
(* on token boundaries exactly as they act on the characters.  The byte    *)
(* length of a text is the sum of the lengths of its tokens.  A Python     *)
(* dict is a sequence of <<key, value>> pairs in insertion order.          *)
(***************************************************************************)
EXTENDS Integers, Sequences, FiniteSets, TLC

\* Python's None, for the optional strings of the code.
NoneVal == "<None>"

\* Truth value of an optional string: None and '' are false.
Truthy(s) == s # NoneVal /\ s # ""

\* One byte that is not valid UTF-8 (0xFF).
BadByte == "~"

WhiteSpace == {" ", "\n", "\t"}

RECURSIVE BLen(_)
\* len(content): the number of bytes of a text.
BLen(t) == IF t = <<>> THEN 0 ELSE Len(Head(t)) + BLen(Tail(t))

RECURSIVE Flat(_)
\* The text as one string.
Flat(t) == IF t = <<>> THEN "" ELSE Head(t) \o Flat(Tail(t))

\* x in text (x one token).
HasTok(t, x) == \E i \in 1..Len(t) : t[i] = x

\* Index of the first occurrence of token x in t, 0 when absent.
FirstIdx(t, x) ==
    IF HasTok(t, x) THEN CHOOSE i \in 1..Len(t) : t[i] = x /\ \A j \in 1..(i-1) : t[j] # x
    ELSE 0

\* text.endswith(suffix)
EndsWith(t, suffix) ==
    /\ Len(suffix) <= Len(t)
    /\ SubSeq(t, Len(t) - Len(suffix) + 1, Len(t)) = suffix

\* text.startswith(prefix)
StartsWith(t, prefix) ==
    /\ Len(prefix) <= Len(t)
    /\ SubSeq(t, 1, Len(prefix)) = prefix

RECURSIVE LStrip(_)
LStrip(t) == IF t # <<>> /\ Head(t) \in WhiteSpace THEN LStrip(Tail(t)) ELSE t

RECURSIVE RStrip(_)
RStrip(t) ==
    IF t # <<>> /\ t[Len(t)] \in WhiteSpace THEN RStrip(SubSeq(t, 1, Len(t) - 1)) ELSE t

\* text.strip()
Strip(t) == RStrip(LStrip(t))

RECURSIVE SplitOn(_, _)
\* text.split(sep): the chunks between the occurrences of sep (one more
\* chunk than occurrences, possibly empty ones).
SplitOn(t, sep) ==
    LET i == FirstIdx(t, sep)
    IN  IF i = 0 THEN <<t>>
        ELSE <<SubSeq(t, 1, i - 1)>> \o SplitOn(SubSeq(t, i + 1, Len(t)), sep)

RECURSIVE JoinWith(_, _)
\* sep.join(parts)
JoinWith(parts, sep) ==
    IF parts = <<>> THEN <<>>
    ELSE IF Len(parts) = 1 THEN parts[1]
    ELSE parts[1] \o <<sep>> \o JoinWith(Tail(parts), sep)

RECURSIVE DropBad(_)
\* bytes.decode('utf-8', errors='ignore'): invalid bytes are dropped.
DropBad(t) ==
    IF t = <<>> THEN <<>>
    ELSE IF Head(t) = BadByte THEN DropBad(Tail(t))
    ELSE <<Head(t)>> \o DropBad(Tail(t))

\* bytes.decode('utf-8') raises UnicodeDecodeError
DecodeFails(t) == HasTok(t, BadByte)

(***************************************************************************)
(* Python dict, in insertion order.                                        *)
(***************************************************************************)
DictHas(d, k) == \E i \in 1..Len(d) : d[i][1] = k

DictIdx(d, k) == CHOOSE i \in 1..Len(d) : d[i][1] = k

\* d[k]
DictGet(d, k) == d[DictIdx(d, k)][2]

\* d[k] = v: a new key goes last, a known key keeps its place.
DictSet(d, k, v) ==
    IF DictHas(d, k) THEN [d EXCEPT ![DictIdx(d, k)] = <<k, v>>]
    ELSE Append(d, <<k, v>>)

DictKeys(d) == {d[i][1] : i \in 1..Len(d)}

\* list(d.values())
DictValues(d) == [i \in 1..Len(d) |-> d[i][2]]

RECURSIVE DictUpdate(_, _)
\* d.update(e)
DictUpdate(d, e) ==
    IF e = <<>> THEN d ELSE DictUpdate(DictSet(d, e[1][1], e[1][2]), Tail(e))


(***************************************************************************)
(* Paths.  "/" and an extension (".xhtml", ".css", ...) are tokens.        *)
(***************************************************************************)
\* The tokens a text ending in "html" may end with.
HtmlSuffixTokens == {".xhtml", ".html"}

\* filepath.endswith(".css")
IsCss(p) == EndsWith(p, <<".css">>)

\* filepath.endswith("html")
IsHtml(p) == p # <<>> /\ p[Len(p)] \in HtmlSuffixTokens

\* filename.endswith(".opf")
IsOpf(p) == EndsWith(p, <<".opf">>)

\* Index of the last "/" of a path, 0 when it has none.
LastSlash(p) ==
    IF HasTok(p, "/") THEN CHOOSE i \in 1..Len(p) : p[i] = "/" /\ \A j \in (i+1)..Len(p) : p[j] # "/"
    ELSE 0

\* os.path.basename(path)
Basename(p) == SubSeq(p, LastSlash(p) + 1, Len(p))

\* os.path.dirname(path): the head of the path, without its trailing "/"
\* (the root "/" keeps it).
Dirname(p) ==
    LET i == LastSlash(p)
    IN  IF i = 0 THEN <<>> ELSE IF i = 1 THEN <<"/">> ELSE SubSeq(p, 1, i - 1)

\* str.lower() of one token: the upper-case tokens of the model.
LowerTok(x) ==
    CASE x = "NAV" -> "nav"
      [] x = "TOC" -> "toc"
      [] x = ".XHTML" -> ".xhtml"
      [] x = ".HTML" -> ".html"
      [] OTHER -> x

\* path.lower()
Lower(p) == [i \in 1..Len(p) |-> LowerTok(p[i])]

\* filepath.replace('.xhtml', '.css').replace('.html', '.css')
CssPathOf(p) == [i \in 1..Len(p) |-> IF p[i] \in {".xhtml", ".html"} THEN ".css" ELSE p[i]]

(***************************************************************************)
(* _get_css_rule_key and the stylesheet merge.                             *)
(***************************************************************************)
Quotes == {"\"", "'"}

\* The characters the font-family value stops at: [^"';}]
FamilyStop == Quotes \cup {";", "}"}

\* Length of the longest run of tokens of t, from index i on, none in stop.
RECURSIVE RunLen(_, _, _)
RunLen(t, i, stop) ==
    IF i > Len(t) \/ t[i] \in stop THEN 0 ELSE 1 + RunLen(t, i + 1, stop)

\* Number of white-space tokens of t from index i on.
RECURSIVE WsLen(_, _)
WsLen(t, i) == IF i <= Len(t) /\ t[i] \in WhiteSpace THEN 1 + WsLen(t, i + 1) ELSE 0

\* The match of font-family:\s*["']?([^"';}]+) that starts at the
\* "font-family:" token at index i: group 1, or <<>> when there is no match
\* there.  \s* takes all the blanks and one optional quote follows; when
\* nothing is left for group 1 the expression backtracks and group 1 starts
\* at the last blank (a blank is no stop character).
FamilyAt(t, i) ==
    LET w == WsLen(t, i + 1)
        a == i + 1 + w
        b == IF a <= Len(t) /\ t[a] \in Quotes THEN a + 1 ELSE a
    IN  IF RunLen(t, b, FamilyStop) > 0 THEN SubSeq(t, b, b + RunLen(t, b, FamilyStop) - 1)
        ELSE IF w > 0 THEN SubSeq(t, a - 1, a - 1 + RunLen(t, a - 1, FamilyStop) - 1)
        ELSE <<>>

\* re.search(r'font-family:\s*["\']?([^"\';}]+)', rule_text): is there a match
FamilyFound(t) == \E i \in 1..Len(t) : t[i] = "font-family:" /\ FamilyAt(t, i) # <<>>

\* group(1) of the leftmost match
FamilyOf(t) ==
    LET i == CHOOSE k \in 1..Len(t) :
                 /\ t[k] = "font-family:" /\ FamilyAt(t, k) # <<>>
                 /\ \A j \in 1..(k-1) : ~(t[j] = "font-family:" /\ FamilyAt(t, j) # <<>>)
    IN  FamilyAt(t, i)

\* _get_css_rule_key(rule_text): the key as a string, NoneVal for None.
get_css_rule_key(rule) ==
    LET selector == Strip(SplitOn(rule, "{")[1])
    IN  IF selector = <<"@font-face">>
        THEN IF FamilyFound(rule) THEN "@font-face:" \o Flat(Strip(FamilyOf(rule)))
             ELSE NoneVal
        ELSE IF selector # <<>> THEN Flat(selector) ELSE NoneVal


\* '{' in rule
IsRule(chunk) == HasTok(chunk, "{")

\* rule.strip() + '}'
RuleText(chunk) == Strip(chunk) \o <<"}">>

RECURSIVE ParseExistingRules(_, _)
\* The loop over existing_str.split('}'): key -> rule text of the stored
\* stylesheet; a later rule with a key already met takes its place.
ParseExistingRules(chunks, rules) ==
    IF chunks = <<>> THEN rules
    ELSE LET rule == Head(chunks)
             key == get_css_rule_key(rule)
         IN  IF IsRule(rule) /\ Truthy(key)
             THEN ParseExistingRules(Tail(chunks), DictSet(rules, key, RuleText(rule)))
             ELSE ParseExistingRules(Tail(chunks), rules)

\* The rule of the later fragment always takes the place.
NewRuleAlwaysWins(rules, key, new_rule) == TRUE

\* rule_key not in existing_rules or len(new_rule) > len(existing_rules[rule_key])
NewRuleWins(rules, key, new_rule) ==
    \/ ~DictHas(rules, key)
    \/ BLen(new_rule) > BLen(DictGet(rules, key))

RECURSIVE MergeNewRules(_, _)
\* The loop over new_str.split('}'): a new key is added, a known key is
\* replaced when the new rule is longer.
MergeNewRules(chunks, rules) ==
    IF chunks = <<>> THEN rules
    ELSE LET rule == Head(chunks)
             key == get_css_rule_key(rule)
         IN  IF IsRule(rule) /\ Truthy(key) /\ NewRuleWins(rules, key, RuleText(rule))
             THEN MergeNewRules(Tail(chunks), DictSet(rules, key, RuleText(rule)))
             ELSE MergeNewRules(Tail(chunks), rules)

\* The merge of the stored stylesheet with the content of a later fragment:
\* '\n'.join(existing_rules.values()).encode('utf-8')
MergeCss(existing, content) ==
    LET existing_rules == ParseExistingRules(SplitOn(DropBad(existing), "}"), <<>>)
        merged == MergeNewRules(SplitOn(DropBad(content), "}"), existing_rules)
    IN  JoinWith(DictValues(merged), "\n")

\* Empty content is handled as any other content.
CollectCssKeepsEmpty(cache, filepath, content) ==
    IF ~DictHas(cache, filepath) THEN DictSet(cache, filepath, content)
    ELSE DictSet(cache, filepath, MergeCss(DictGet(cache, filepath), content))

\* One stylesheet entry of a fragment met by the loop "Collect CSS files":
\* empty content is skipped, a new path is stored as it is, a known path
\* is merged.
CollectCss(cache, filepath, content) ==
    IF content = <<>> THEN cache
    ELSE IF ~DictHas(cache, filepath) THEN DictSet(cache, filepath, content)
    ELSE DictSet(cache, filepath, MergeCss(DictGet(cache, filepath), content))



(***************************************************************************)
(* _fix_fixed_layout_page                                                  *)
(***************************************************************************)
\* The tokens that are runs of digits (\d+).
DigitTokens == {"0", "45", "120", "600", "800", "1024"}

\* The tokens that end in "body" and those that end in "width:", "height:".
BodyTokens == {"body", "tbody"}
DimTokens(dim) ==
    IF dim = "width" THEN {"width:", "max-width:"} ELSE {"height:", "line-height:"}

\* <dim>:\s*(\d+)px matches at index k of the stylesheet.
DimMatchAt(css, k, dim) ==
    LET d == k + 1 + WsLen(css, k + 1)
    IN  /\ css[k] \in DimTokens(dim)
        /\ d + 1 <= Len(css)
        /\ css[d] \in DigitTokens
        /\ css[d + 1] = "px"

\* The places k where body\s*\{[^}]*<dim>:\s*(\d+)px matches with "body" at
\* index i: the brace follows the blanks after "body" and no "}" stands
\* between the brace and k.
DimPlaces(css, i, dim) ==
    LET b == i + 1 + WsLen(css, i + 1)
    IN  IF css[i] \in BodyTokens /\ b <= Len(css) /\ css[b] = "{"
        THEN {k \in (b+1)..Len(css) :
                 /\ DimMatchAt(css, k, dim)
                 /\ \A j \in (b+1)..(k-1) : css[j] # "}"}
        ELSE {}

\* group(1) of re.search(r'body\s*\{[^}]*<dim>:\s*(\d+)px', css_str), NoneVal
\* when nothing matches: the leftmost "body" that matches, and for it the
\* last place ([^}]* is greedy).
DimSearch(css, dim) ==
    LET starts == {i \in 1..Len(css) : DimPlaces(css, i, dim) # {}}
    IN  IF starts = {} THEN NoneVal
        ELSE LET i == CHOOSE x \in starts : \A y \in starts : x <= y
                 k == CHOOSE x \in DimPlaces(css, i, dim) :
                          \A y \in DimPlaces(css, i, dim) : y <= x
             IN  css[k + 1 + WsLen(css, k + 1)]

NameViewport == "name=\"viewport\""

\* f'<meta name="viewport" content="width={width}, height={height}"/>'
ViewportTag(width, height) ==
    <<"<meta ", NameViewport, " content=\"width=", width, ", height=", height, "\"/>">>

\* html_str.replace('<head>', f'<head>\n    {viewport_tag}', 1)
InsertViewport(html, width, height) ==
    LET i == FirstIdx(html, "<head>")
    IN  SubSeq(html, 1, i) \o <<"\n    ">> \o ViewportTag(width, height)
            \o SubSeq(html, i + 1, Len(html))

\* style="width:px;\s*height:px;" matches at index i of the page.
BrokenStyleAt(html, i) ==
    LET w == WsLen(html, i + 4)
    IN  /\ i + 7 + w <= Len(html)
        /\ SubSeq(html, i, i + 3) = <<"style=\"", "width:", "px", ";">>
        /\ SubSeq(html, i + 4 + w, i + 7 + w) = <<"height:", "px", ";", "\"">>

RECURSIVE FixStyles(_, _, _, _)
\* re.sub(r'style="width:px;\s*height:px;"',
\*        f'style="width:{width}px; height:{height}px;"', html_str)
FixStyles(html, i, width, height) ==
    IF i > Len(html) THEN <<>>
    ELSE IF BrokenStyleAt(html, i)
    THEN <<"style=\"", "width:", width, "px", ";", " ", "height:", height, "px", ";", "\"">>
             \o FixStyles(html, i + 8 + WsLen(html, i + 4), width, height)
    ELSE <<html[i]>> \o FixStyles(html, i + 1, width, height)

\* The viewport tag is inserted whether or not the page has one.
fix_inserts_viewport_again(html_content, css_content) ==
    IF DecodeFails(html_content) THEN html_content
    ELSE LET usable == css_content # <<>> /\ ~DecodeFails(css_content)
             width  == IF usable THEN DimSearch(css_content, "width") ELSE NoneVal
             height == IF usable THEN DimSearch(css_content, "height") ELSE NoneVal
             with_viewport ==
                 IF HasTok(html_content, "<head>")
                 THEN InsertViewport(html_content, width, height)
                 ELSE html_content
         IN  IF ~Truthy(width) \/ ~Truthy(height) THEN html_content
             ELSE FixStyles(with_viewport, 1, width, height)

\* The page is stored as it came.
fix_nothing(html_content, css_content) == html_content

\* _fix_fixed_layout_page(html_content, css_content)
fix_fixed_layout_page(html_content, css_content) ==
    IF DecodeFails(html_content) THEN html_content
    ELSE LET usable == css_content # <<>> /\ ~DecodeFails(css_content)
             width  == IF usable THEN DimSearch(css_content, "width") ELSE NoneVal
             height == IF usable THEN DimSearch(css_content, "height") ELSE NoneVal
             with_viewport ==
                 IF ~HasTok(html_content, NameViewport) /\ HasTok(html_content, "<head>")
                 THEN InsertViewport(html_content, width, height)
                 ELSE html_content
         IN  IF ~Truthy(width) \/ ~Truthy(height) THEN html_content
             ELSE FixStyles(with_viewport, 1, width, height)


(***************************************************************************)
(* _extract_opf_metadata.  A parsed package document is a record           *)
(*   [ok, metadata, metas, manifest, items, spine, itemrefs]:              *)
(* ok is FALSE when ET.fromstring raises ParseError; metadata, manifest    *)
(* and spine tell how the child of the root is written ("opf": in the      *)
(* package-document namespace, "plain": with no namespace, "none":         *)
(* absent); metas, items and itemrefs are the elements element.iter()      *)
(* yields, in document order.  An absent attribute or text is NoneVal; an  *)
(* absent href is the empty path.                                          *)
(***************************************************************************)
NonePath == <<>>

\* root.find('opf:metadata', ns), then root.find('{http://www.idpf.org/2007/opf}metadata'):
\* both look for the tag in the package-document namespace.
FindChild(how) == how = "opf"

\* The value of the 'properties' attribute holds 'cover-image'.
CoverImageProps == {"cover-image", "cover-image svg"}

EmptyOpfResult ==
    [rendition_layout |-> NoneVal, rendition_spread |-> NoneVal,
     rendition_orientation |-> NoneVal, cover_id |-> NoneVal,
     cover_href |-> NonePath, spine_properties |-> <<>>]

\* meta.tag.endswith('}meta') or meta.tag == 'meta'
IsMetaTag(tag) == tag \in {"{opf}meta", "meta"}

\* meta.get('property', '')
AttrOr(v, default) == IF v = NoneVal THEN default ELSE v

RECURSIVE ScanMetas(_, _)
\* for meta in metadata.iter(): the rendition properties and the cover id;
\* a later meta element overwrites an earlier one.
ScanMetas(metas, result) ==
    IF metas = <<>> THEN result
    ELSE LET meta == Head(metas)
             prop == AttrOr(meta.property, "")
             r1 == IF prop = "rendition:layout"
                   THEN [result EXCEPT !.rendition_layout = meta.text]
                   ELSE IF prop = "rendition:spread"
                   THEN [result EXCEPT !.rendition_spread = meta.text]
                   ELSE IF prop = "rendition:orientation"
                   THEN [result EXCEPT !.rendition_orientation = meta.text]
                   ELSE result
             r2 == IF AttrOr(meta.name, "") = "cover"
                   THEN [r1 EXCEPT !.cover_id = meta.content]
                   ELSE r1
         IN  IF IsMetaTag(meta.tag) THEN ScanMetas(Tail(metas), r2)
             ELSE ScanMetas(Tail(metas), result)

RECURSIVE ScanManifest(_, _, _)
\* for item in manifest.iter(): <<result, id_to_href>> after the loop.
ScanManifest(items, result, id_to_href) ==
    IF items = <<>> THEN <<result, id_to_href>>
    ELSE LET item == Head(items)
             ids == IF Truthy(item.id) /\ item.href # NonePath
                    THEN DictSet(id_to_href, item.id, item.href)
                    ELSE id_to_href
             r1 == IF Truthy(result.cover_id) /\ item.id = result.cover_id
                        /\ result.cover_href = NonePath
                   THEN [result EXCEPT !.cover_href = item.href]
                   ELSE result
             r2 == IF AttrOr(item.properties, "") \in CoverImageProps
                        /\ r1.cover_href = NonePath
                   THEN [r1 EXCEPT !.cover_href = item.href, !.cover_id = item.id]
                   ELSE r1
         IN  ScanManifest(Tail(items), r2, ids)

RECURSIVE ScanSpine(_, _, _)
\* for itemref in spine.iter(): href -> properties
ScanSpine(itemrefs, id_to_href, props) ==
    IF itemrefs = <<>> THEN props
    ELSE LET ref == Head(itemrefs)
         IN  IF /\ ref.tag \in {"{opf}itemref", "itemref"}
                /\ Truthy(ref.idref) /\ Truthy(ref.properties)
                /\ DictHas(id_to_href, ref.idref)
             THEN ScanSpine(Tail(itemrefs), id_to_href,
                            DictSet(props, DictGet(id_to_href, ref.idref), ref.properties))
             ELSE ScanSpine(Tail(itemrefs), id_to_href, props)

\* The manifest and the spine are read whether or not the document has a
\* metadata element.
extract_opf_metadata_reads_on(doc) ==
    IF ~doc.ok THEN EmptyOpfResult
    ELSE LET r1 == IF FindChild(doc.metadata) THEN ScanMetas(doc.metas, EmptyOpfResult)
                   ELSE EmptyOpfResult
             m  == IF FindChild(doc.manifest) THEN ScanManifest(doc.items, r1, <<>>)
                   ELSE <<r1, <<>>>>
             sp == IF FindChild(doc.spine) THEN ScanSpine(doc.itemrefs, m[2], <<>>)
                   ELSE <<>>
         IN  [m[1] EXCEPT !.spine_properties = sp]

\* _extract_opf_metadata(opf_content), on the parsed document.
extract_opf_metadata(doc) ==
    IF ~doc.ok THEN EmptyOpfResult
    ELSE IF ~FindChild(doc.metadata) THEN EmptyOpfResult
    ELSE LET r1 == ScanMetas(doc.metas, EmptyOpfResult)
             m  == IF FindChild(doc.manifest) THEN ScanManifest(doc.items, r1, <<>>)
                   ELSE <<r1, <<>>>>
             sp == IF FindChild(doc.spine) THEN ScanSpine(doc.itemrefs, m[2], <<>>)
                   ELSE <<>>
         IN  [m[1] EXCEPT !.spine_properties = sp]


(***************************************************************************)
(* The inputs: the fragments a run may be given.                           *)
(***************************************************************************)
\* Longest sequence of fragments of a run.
MaxFragments == 3

Page1 == <<"OEBPS", "/", "page1", ".xhtml">>
Page2 == <<"OEBPS", "/", "page2", ".xhtml">>
NavPage == <<"OEBPS", "/", "nav", ".xhtml">>
Css1 == <<"OEBPS", "/", "page1", ".css">>
Css2 == <<"OEBPS", "/", "fonts", ".css">>
Image1 == <<"OEBPS", "/", "images", "/", "a", ".png">>
Image2 == <<"OEBPS", "/", "images", "/", "b", ".png">>
OpfPath == <<"OEBPS", "/", "content", ".opf">>
Opf2Path == <<"OEBPS", "/", "second", ".opf">>
NcxPath == <<"OEBPS", "/", "toc", ".ncx">>
MimetypePath == <<"mimetype">>
ContainerPath == <<"META-INF", "/", "container", ".xml">>
DirPath == <<"OEBPS", "/">>

\* Page bodies.  BodyFull is the complete page, of 120 bytes: a head, a
\* degenerate inline style and two images; BodyStub and BodyStubB are two
\* different bodies of 45 bytes each.
BodyFull ==
    <<"<html>", "<head>", "</head>", "<p/>",
      "<div ", "style=\"", "width:", "px", ";", " ", "height:", "px", ";", "\"", ">",
      "<img", " ", "src=", "\"", "images", "/", "a", ".png", "\"", "/>",
      "<img", " ", "src=", "\"", "images", "/", "b", ".png", "\"", "/>",
      "</div>", "</html>">>
BodyStub == <<"<html>", "<head>", "</head>", "<p>stub-page-1a</p>", "</html>">>
BodyStubB == <<"<html>", "<head>", "</head>", "<p>stub-page-1b</p>", "</html>">>
BodyNav == <<"<html>", "<nav/>", "</html>">>
\* A page of 150 bytes, one of which is not valid UTF-8.
BodyBad ==
    <<"<html>", "<head>", BadByte, "</head>",
      "<p>01234567890123456789012345678901234567890123456789012345678901234567890123456789012345678901234567890123456789012345</p>",
      "</html>">>
BodyPage2 == <<"<html>", "<head>", "</head>", "two", "</html>">>

\* Stylesheets.
CssBody == <<"body", "{", "width:", "600", "px", ";", "height:", "800", "px", ";", "}">>
CssBodyRed ==
    <<"body", "{", "width:", "600", "px", ";", "height:", "800", "px", ";",
      "color:red", ";", "}">>
\* CssBody followed by a byte that is not valid UTF-8.
CssBodyBad == CssBody \o <<BadByte>>
\* The key "a" twice, the longer rule first, then a rule of key "p".
CssTwice == <<"a", "{", "x:1", ";", "y:2", "}", "\n", "a", "{", "x:1", "}", "p", "{", "m:0", "}">>
\* Rules of the keys "b" and "p"; the rule of "p" is as long as CssTwice's.
CssOther == <<"b", "{", "z:3", "}", " ", "p", "{", "m:1", "}">>

\* Font rules.  CssFontA: the family "A" in double quotes, a rule with no
\* font-family, and the family C in a rule that follows a comment.
\* CssFontB: the family 'B' in a longer rule written with blanks, and the
\* family D in a longer rule that follows the same comment.
CssFontA ==
    <<"@font-face", "{", "font-family:", "\"", "A", "\"", ";", "src:a", "}",
      "@font-face", "{", "src:x", "}",
      "/*c*/", "@font-face", "{", "font-family:", "C", ";", "src:c", "}">>
CssFontB ==
    <<"@font-face", " ", "{", " ", "font-family:", " ", "'", "B", "'", ";", " ",
      "src:url(b)", ";", " ", "}", "\n",
      "/*c*/", "@font-face", "{", "font-family:", "D", ";", "src:url(d)", "}">>

\* Package documents, as the bytes of the archive entry.
OpfFixed == <<"<package fixed/>">>
OpfFlow == <<"<package reflowable/>">>
OpfFixedNoCover == <<"<package fixed-no-cover/>">>
OpfMalformed == <<"<package">>
\* A cover id and, in the manifest, the cover-image item before the item
\* of that id.
OpfCoverImageFirst == <<"<package cover-image-first/>">>
\* OpfFixed with no namespace on any element.
OpfPlain == <<"<package plain/>">>
\* The metadata element in the namespace, manifest and spine with none.
OpfMixed == <<"<package mixed/>">>
\* OpfFixed without its metadata element: the manifest and the spine only.
OpfNoMetadata == <<"<package no-metadata/>">>
\* A document whose XML declaration names an encoding Python does not know.
OpfBadEncoding == <<"<?xml version=\"1.0\" encoding=\"bogus\"?>", "<package/>">>

Meta(property, text) ==
    [tag |-> "{opf}meta", property |-> property, text |-> text,
     name |-> NoneVal, content |-> NoneVal]
\* <meta name="cover" content="..."/>
CoverMeta(content) ==
    [tag |-> "{opf}meta", property |-> NoneVal, text |-> NoneVal,
     name |-> "cover", content |-> content]
\* The same element outside the namespace.
Plain(element) ==
    [element EXCEPT !.tag = IF element.tag = "{opf}meta" THEN "meta" ELSE "itemref"]
Item(id, href, properties) == [id |-> id, href |-> href, properties |-> properties]
ItemRef(idref, properties) ==
    [tag |-> "{opf}itemref", idref |-> idref, properties |-> properties]

\* ET.fromstring(opf_content): the parsed document of each package document
\* of the inputs.
ParseXml(content) ==
    CASE content = OpfFixed ->
           [ok |-> TRUE, metadata |-> "opf", manifest |-> "opf", spine |-> "opf",
            metas |-> <<Meta("rendition:layout", "pre-paginated"),
                        Meta("rendition:spread", "landscape"),
                        Meta("rendition:orientation", "auto")>>,
            items |-> <<Item("p1", <<"page1", ".xhtml">>, NoneVal),
                        Item("i1", <<"images", "/", "a", ".png">>, "cover-image")>>,
            itemrefs |-> <<ItemRef("p1", "page-spread-left")>>]
      [] content = OpfFlow ->
           [ok |-> TRUE, metadata |-> "opf", manifest |-> "opf", spine |-> "opf",
            metas |-> <<Meta("rendition:layout", "reflowable"),
                        Meta("rendition:spread", "none"),
                        Meta("rendition:orientation", "portrait")>>,
            items |-> <<Item("p1", <<"page1", ".xhtml">>, NoneVal),
                        Item("i2", <<"images", "/", "b", ".png">>, "cover-image")>>,
            itemrefs |-> <<ItemRef("p1", "page-spread-right")>>]
      [] content = OpfFixedNoCover ->
           [ok |-> TRUE, metadata |-> "opf", manifest |-> "opf", spine |-> "opf",
            metas |-> <<Meta("rendition:layout", "pre-paginated")>>,
            items |-> <<Item("p1", <<"page1", ".xhtml">>, NoneVal)>>,
            itemrefs |-> <<ItemRef("p1", NoneVal)>>]
      [] content = OpfCoverImageFirst ->
           [ok |-> TRUE, metadata |-> "opf", manifest |-> "opf", spine |-> "opf",
            metas |-> <<CoverMeta("i1"), Meta("rendition:layout", "pre-paginated")>>,
            items |-> <<Item("p1", <<"page1", ".xhtml">>, NoneVal),
                        Item("i2", <<"images", "/", "b", ".png">>, "cover-image"),
                        Item("i1", <<"images", "/", "a", ".png">>, NoneVal)>>,
            itemrefs |-> <<ItemRef("p1", "page-spread-left")>>]
      [] content = OpfPlain ->
           [ok |-> TRUE, metadata |-> "plain", manifest |-> "plain", spine |-> "plain",
            metas |-> <<Plain(Meta("rendition:layout", "pre-paginated")),
                        Plain(Meta("rendition:spread", "landscape")),
                        Plain(Meta("rendition:orientation", "auto"))>>,
            items |-> <<Item("p1", <<"page1", ".xhtml">>, NoneVal),
                        Item("i1", <<"images", "/", "a", ".png">>, "cover-image")>>,
            itemrefs |-> <<Plain(ItemRef("p1", "page-spread-left"))>>]
      [] content = OpfMixed ->
           [ok |-> TRUE, metadata |-> "opf", manifest |-> "plain", spine |-> "plain",
            metas |-> <<Meta("rendition:layout", "pre-paginated")>>,
            items |-> <<Item("p1", <<"page1", ".xhtml">>, NoneVal),
                        Item("i1", <<"images", "/", "a", ".png">>, "cover-image")>>,
            itemrefs |-> <<Plain(ItemRef("p1", "page-spread-left"))>>]
      [] content = OpfNoMetadata ->
           [ok |-> TRUE, metadata |-> "none", manifest |-> "opf", spine |-> "opf",
            metas |-> <<>>,
            items |-> <<Item("p1", <<"page1", ".xhtml">>, NoneVal),
                        Item("i1", <<"images", "/", "a", ".png">>, "cover-image")>>,
            itemrefs |-> <<ItemRef("p1", "page-spread-left")>>]
      [] OTHER ->
           [ok |-> FALSE, metadata |-> "none", manifest |-> "none", spine |-> "none",
            metas |-> <<>>, items |-> <<>>, itemrefs |-> <<>>]

\* ET.fromstring(opf_content) raises an exception that is no ParseError: the
\* name of the exception, NoneVal when it does not.  An unknown encoding in
\* the XML declaration raises LookupError.
FromStringRaises(content) ==
    IF content = OpfBadEncoding THEN "LookupError" ELSE NoneVal

Entry(name, content) == [name |-> name, content |-> content]

\* The archives the service may ship: bad is TRUE for bytes that are no ZIP
\* archive, entries are the members in the order of namelist().
Archive(entries) == [bad |-> FALSE, entries |-> entries]
Fragments ==
    << Archive(<<Entry(MimetypePath, <<"application/epub+zip">>),
                 Entry(ContainerPath, <<"<container/>">>),
                 Entry(OpfPath, OpfFixed),
                 Entry(Css1, CssBody),
                 Entry(Page1, <<>>),
                 Entry(Image1, <<"png">>)>>),
       Archive(<<Entry(OpfPath, OpfFlow),
                 Entry(Page1, BodyFull),
                 Entry(Css1, CssBodyRed),
                 Entry(Image1, <<"png", "more">>),
                 Entry(Image2, <<"png", "most", "data">>),
                 Entry(NavPage, BodyNav)>>),
       Archive(<<Entry(DirPath, <<>>),
                 Entry(Css1, <<>>),
                 Entry(NavPage, BodyNav),
                 Entry(Page1, BodyStub),
                 Entry(Page2, BodyPage2),
                 Entry(NcxPath, <<"<ncx/>">>)>>),
       Archive(<<Entry(Css1, CssTwice),
                 Entry(Page1, BodyStubB),
                 Entry(OpfPath, OpfFixedNoCover)>>),
       Archive(<<Entry(Css1, CssOther),
                 Entry(OpfPath, OpfMalformed),
                 Entry(Opf2Path, OpfFixed),
                 Entry(Image2, <<>>)>>),
       [bad |-> TRUE, entries |-> <<>>],
       Archive(<<Entry(OpfPath, OpfCoverImageFirst),
                 Entry(Css2, CssFontA),
                 Entry(Css1, CssBodyBad)>>),
       Archive(<<Entry(OpfPath, OpfMixed),
                 Entry(Css2, CssFontB)>>),
       Archive(<<Entry(OpfPath, OpfBadEncoding)>>),
       Archive(<<Entry(OpfPath, OpfPlain),
                 Entry(Page1, BodyBad)>>),
       Archive(<<Entry(Css1, CssBody),
                 Entry(Page1, <<>>)>>),
       Archive(<<Entry(OpfPath, OpfNoMetadata)>>) >>

FragmentIds == 1..Len(Fragments)

\* data.files_in_toc: reference (file name, then "#" and a fragment
\* identifier) -> title.
FilesInToc ==
    << <<<<"page1", ".xhtml", "#", "start">>, "Chapter 1">>,
       <<<<"page2", ".xhtml">>, "Chapter 2">> >>

RECURSIVE SeqsUpTo(_, _)
\* The sequences over S of length at most n.
SeqsUpTo(S, n) ==
    IF n = 0 THEN {<<>>}
    ELSE LET shorter == SeqsUpTo(S, n - 1)
         IN  shorter \cup {Append(q, x) : q \in shorter, x \in S}


(***************************************************************************)
(* The state of one run of Epub._download_epub_in_parts.                   *)
(***************************************************************************)
VARIABLES
    files,            \* data.files: the fragments, in arrival order (ids)
    pc,               \* "start", "download", "merge", "synth", "done", "raised"
    idx,              \* position of the loop "for file in files"
    exc,              \* the exception that ended the run, NoneVal if none
    tmp_exists,       \* the file location + ".tmp" exists
    added_files,      \* filepath -> size of the content kept
    css_cache,        \* stylesheet path -> accumulated content
    metadata,         \* metadata.rendition_layout, _spread, _orientation
    cover_href,       \* the cover image path, NonePath if unset
    spine_properties, \* href -> properties
    opf_extracted,    \* a package document has been processed
    opf_metadata,     \* what _extract_opf_metadata returned for it
    items,            \* output.items
    spine,            \* output.spine: [item: index into items, props]
    toc,              \* output.toc: indices into items
    out_metadata,     \* the metadata entries added to output
    cover_item        \* index of the item marked as cover, 0 if none

vars == <<files, pc, idx, exc, tmp_exists, added_files, css_cache, metadata,
          cover_href, spine_properties, opf_extracted, opf_metadata, items, spine, toc,
          out_metadata, cover_item>>

\* zipfile.namelist()
NameList(entries) == [i \in 1..Len(entries) |-> entries[i].name]

\* zipfile.read(name): the member of that name (the last one written).
ReadEntry(entries, name) ==
    LET i == CHOOSE k \in 1..Len(entries) :
                 entries[k].name = name /\ \A j \in (k+1)..Len(entries) : entries[j].name # name
    IN  entries[i].content

RECURSIVE CollectCssFiles(_, _, _)
\* for filepath in zipfile.namelist(): if filepath.endswith(".css"): ...
\* (names is what is left of namelist()).
CollectCssFiles(names, entries, cache) ==
    IF names = <<>> THEN cache
    ELSE IF IsCss(Head(names))
    THEN CollectCssFiles(Tail(names), entries,
                         CollectCss(cache, Head(names), ReadEntry(entries, Head(names))))
    ELSE CollectCssFiles(Tail(names), entries, cache)

\* A body of any other size takes the place.
IsOtherSize(new_size, old_size) == new_size # old_size

IsLargerOrEqual(new_size, old_size) == new_size >= old_size

\* new_size > added_files[filename]
IsLarger(new_size, old_size) == new_size > old_size

\* Every path is handled by its size alone.
should_add_file_by_size_only(added, entries, filename) ==
    IF ~DictHas(added, filename) THEN TRUE
    ELSE IsLarger(BLen(ReadEntry(entries, filename)), DictGet(added, filename))

\* The first version met is kept whatever comes later.
should_add_file_first_wins(added, entries, filename) ==
    /\ ~EndsWith(filename, <<"/">>)
    /\ filename # <<"mimetype">> /\ ~StartsWith(filename, <<"META-INF", "/">>)
    /\ ~EndsWith(filename, <<".opf">>) /\ ~EndsWith(filename, <<".ncx">>)
    /\ ~DictHas(added, filename)

\* should_add_file(zipfile, filename)
should_add_file(added, entries, filename) ==
    IF EndsWith(filename, <<"/">>) THEN FALSE
    ELSE IF filename = <<"mimetype">> \/ StartsWith(filename, <<"META-INF", "/">>) THEN FALSE
    ELSE IF EndsWith(filename, <<".opf">>) \/ EndsWith(filename, <<".ncx">>) THEN FALSE
    ELSE IF ~DictHas(added, filename) THEN TRUE
    ELSE IsLarger(BLen(ReadEntry(entries, filename)), DictGet(added, filename))

\* The first package document of the archive is read when none was
\* processed before: <<metadata, cover_href, spine_properties, opf_extracted>>.
OpfNames(entries) == {i \in 1..Len(entries) : IsOpf(entries[i].name)}

\* opf_content = zipfile.read(filename) for the first name ending in ".opf"
OpfContent(entries) ==
    LET i == CHOOSE k \in OpfNames(entries) : \A j \in OpfNames(entries) : k <= j
    IN  ReadEntry(entries, entries[i].name)

ApplyOpf(entries, md, cover, props) ==
    LET extracted == extract_opf_metadata(ParseXml(OpfContent(entries)))
    IN  << [rendition_layout |->
                IF Truthy(extracted.rendition_layout)
                THEN extracted.rendition_layout ELSE md.rendition_layout,
            rendition_spread |->
                IF Truthy(extracted.rendition_spread)
                THEN extracted.rendition_spread ELSE md.rendition_spread,
            rendition_orientation |->
                IF Truthy(extracted.rendition_orientation)
                THEN extracted.rendition_orientation ELSE md.rendition_orientation],
           IF extracted.cover_href # NonePath THEN extracted.cover_href ELSE cover,
           DictUpdate(props, extracted.spine_properties),
           TRUE >>

\* The package document of every fragment is applied.
ExtractOpfAlways(entries, md, cover, props, extracted) ==
    IF OpfNames(entries) # {}
    THEN ApplyOpf(entries, md, cover, props)
    ELSE <<md, cover, props, extracted>>

\* A package document that yields nothing leaves the next one to be read.
ExtractOpfUntilUseful(entries, md, cover, props, extracted) ==
    IF ~extracted /\ OpfNames(entries) # {}
    THEN LET applied == ApplyOpf(entries, md, cover, props)
         IN  <<applied[1], applied[2], applied[3],
               extract_opf_metadata(ParseXml(OpfContent(entries))) # EmptyOpfResult>>
    ELSE <<md, cover, props, extracted>>

\* if not opf_extracted: for filename in zipfile.namelist(): ...
ExtractOpf(entries, md, cover, props, extracted) ==
    IF ~extracted /\ OpfNames(entries) # {}
    THEN ApplyOpf(entries, md, cover, props)
    ELSE <<md, cover, props, extracted>>

\* The tokens that end in "nav" or "toc".
NavTokens == {"nav", "toc"}

\* any(x in filepath.lower() for x in ['nav.xhtml', 'nav.html', 'toc.xhtml', 'toc.html'])
IsNav(filepath) ==
    LET low == Lower(filepath)
    IN  \E i \in 1..(Len(low) - 1) : low[i] \in NavTokens /\ low[i + 1] \in {".xhtml", ".html"}

\* The loop over data.files_in_toc: is the file name a key of the TOC index
\* (key.split("#")[0] == filename).
IsInToc(filename) ==
    \E i \in 1..Len(FilesInToc) : SplitOn(FilesInToc[i][1], "#")[1] = filename

\* The loop over spine_properties: the properties of the first href that
\* matches the path, NoneVal when none does.
SpinePropsMatch(filepath, href) ==
    EndsWith(filepath, href) \/ EndsWith(href, Basename(filepath))

SpinePropsOf(props, filepath) ==
    LET hits == {i \in 1..Len(props) : SpinePropsMatch(filepath, props[i][1])}
    IN  IF hits = {} THEN NoneVal
        ELSE props[CHOOSE i \in hits : \A j \in hits : i <= j][2]

\* The page is repaired whatever the layout.
PageContentAnyLayout(filepath, content, layout, cache) ==
    LET css_path == CssPathOf(filepath)
    IN  IF DictHas(cache, css_path) /\ DictGet(cache, css_path) # <<>>
        THEN fix_fixed_layout_page(content, DictGet(cache, css_path))
        ELSE content

\* The content stored for a page: repaired when the layout is pre-paginated
\* and the companion stylesheet has content.
PageContent(filepath, content, layout, cache) ==
    LET css_path == CssPathOf(filepath)
    IN  IF layout = "pre-paginated" /\ DictHas(cache, css_path)
            /\ DictGet(cache, css_path) # <<>>
        THEN fix_fixed_layout_page(content, DictGet(cache, css_path))
        ELSE content

\* The page enters the spine unless it is a navigation page of a
\* pre-paginated book.
EntersSpine(filepath, layout) == ~(IsNav(filepath) /\ layout = "pre-paginated")

\* The size recorded for a page is the length of the stored content.
AddFileRecordsStoredSize(st, filepath, content, layout, cache, props) ==
    IF IsHtml(filepath)
    THEN LET epub_file == [file_name |-> filepath,
                           content |-> PageContent(filepath, content, layout, cache),
                           media_type |-> "application/xhtml+xml"]
             n == Len(st.items) + 1
         IN  [added_files |-> DictSet(st.added_files, filepath,
                                      BLen(PageContent(filepath, content, layout, cache))),
              items |-> Append(st.items, epub_file),
              spine |-> IF EntersSpine(filepath, layout)
                        THEN Append(st.spine, [item |-> n,
                                               props |-> SpinePropsOf(props, filepath)])
                        ELSE st.spine,
              toc |-> IF IsInToc(Basename(filepath)) THEN Append(st.toc, n) ELSE st.toc]
    ELSE [st EXCEPT
              !.added_files = DictSet(st.added_files, filepath, BLen(content)),
              !.items = Append(st.items, [file_name |-> filepath, content |-> content,
                                          media_type |-> ""])]

\* One path of the archive kept by should_add_file: the body of the loop
\* from "content = zipfile.read(filepath)" on.  st is
\* [added_files, items, spine, toc].
AddFile(st, filepath, content, layout, cache, props) ==
    IF IsHtml(filepath)
    THEN LET epub_file == [file_name |-> filepath,
                           content |-> PageContent(filepath, content, layout, cache),
                           media_type |-> "application/xhtml+xml"]
             n == Len(st.items) + 1
         IN  [added_files |-> DictSet(st.added_files, filepath, BLen(content)),
              items |-> Append(st.items, epub_file),
              spine |-> IF EntersSpine(filepath, layout)
                        THEN Append(st.spine, [item |-> n,
                                               props |-> SpinePropsOf(props, filepath)])
                        ELSE st.spine,
              toc |-> IF IsInToc(Basename(filepath)) THEN Append(st.toc, n) ELSE st.toc]
    ELSE [st EXCEPT
              !.added_files = DictSet(st.added_files, filepath, BLen(content)),
              !.items = Append(st.items, [file_name |-> filepath, content |-> content,
                                          media_type |-> ""])]

RECURSIVE MergeFiles(_, _, _, _, _, _)
\* for filepath in zipfile.namelist(): the third loop over the archive
\* (names is what is left of namelist()).
MergeFiles(names, entries, st, layout, cache, props) ==
    IF names = <<>> THEN st
    ELSE LET filepath == Head(names)
         IN  IF IsCss(filepath) \/ ~should_add_file(st.added_files, entries, filepath)
             THEN MergeFiles(Tail(names), entries, st, layout, cache, props)
             ELSE MergeFiles(Tail(names), entries,
                             AddFile(st, filepath, ReadEntry(entries, filepath),
                                     layout, cache, props),
                             layout, cache, props)


(***************************************************************************)
(* Cover inference and synthesis.                                          *)
(***************************************************************************)
\* The tokens that start with ".".
DotTokens == {".xhtml", ".html", ".css", ".png", ".opf", ".ncx", ".xml"}

\* 'nav.' in fname or 'toc.' in fname
HasNavDot(fname) ==
    \E i \in 1..(Len(fname) - 1) : fname[i] \in NavTokens /\ fname[i + 1] \in DotTokens

\* The spine entries that can be the first content page.
ContentPages(sp, its) ==
    {i \in 1..Len(sp) :
        LET fname == Lower(its[sp[i].item].file_name)
        IN  /\ fname # <<>>
            /\ ~HasNavDot(fname)
            /\ (EndsWith(fname, <<".xhtml">>) \/ EndsWith(fname, <<".html">>))}

\* The tokens that end in "src=" and those that hold ">".
SrcTokens == {"src=", "data-src="}
CloseTokens == {">", "/>"}

\* The places of src=["']([^"']+)["'] inside the tag opened by "<img" at
\* index i: [^>]+ takes at least one token and none that holds ">".
SrcPlaces(t, i) ==
    {k \in (i+2)..(Len(t) - 3) :
        /\ t[k] \in SrcTokens
        /\ \A j \in (i+1)..(k-1) : t[j] \notin CloseTokens
        /\ t[k + 1] \in Quotes
        /\ RunLen(t, k + 2, Quotes) > 0
        /\ k + 2 + RunLen(t, k + 2, Quotes) <= Len(t)}

RECURSIVE ImgSources(_, _)
\* re.findall(r'<img[^>]+src=["\']([^"\']+)["\']', content), from index i on.
ImgSources(t, i) ==
    IF i > Len(t) THEN <<>>
    ELSE IF t[i] = "<img" /\ SrcPlaces(t, i) # {}
    THEN LET k == CHOOSE x \in SrcPlaces(t, i) : \A y \in SrcPlaces(t, i) : y <= x
             n == RunLen(t, k + 2, Quotes)
         IN  <<SubSeq(t, k + 2, k + 1 + n)>> \o ImgSources(t, k + 3 + n)
    ELSE ImgSources(t, i + 1)

RECURSIVE NormParts(_, _)
\* os.path.normpath on the components of a relative path: "." and empty
\* components go, ".." takes back the component before it.
NormParts(parts, done) ==
    IF parts = <<>> THEN done
    ELSE IF Head(parts) = <<>> \/ Head(parts) = <<".">> THEN NormParts(Tail(parts), done)
    ELSE IF Head(parts) = <<"..">> /\ done # <<>> /\ done[Len(done)] # <<"..">>
    THEN NormParts(Tail(parts), SubSeq(done, 1, Len(done) - 1))
    ELSE NormParts(Tail(parts), Append(done, Head(parts)))

\* os.path.normpath(os.path.join(page_dir, img_src))
ImgPath(page_dir, img_src) ==
    LET joined == IF StartsWith(img_src, <<"/">>) \/ page_dir = <<>> THEN img_src
                  ELSE IF EndsWith(page_dir, <<"/">>) THEN page_dir \o img_src
                  ELSE page_dir \o <<"/">> \o img_src
        body == JoinWith(NormParts(SplitOn(joined, "/"), <<>>), "/")
    IN  IF StartsWith(joined, <<"/">>) THEN <<"/">> \o body
        ELSE IF body = <<>> THEN <<".">> ELSE body

RECURSIVE ItemSizes(_, _)
\* {item.file_name: len(item.content) for item in output.items
\*  if item.file_name and item.content}
ItemSizes(its, sizes) ==
    IF its = <<>> THEN sizes
    ELSE IF Head(its).file_name # <<>> /\ Head(its).content # <<>>
    THEN ItemSizes(Tail(its), DictSet(sizes, Head(its).file_name, BLen(Head(its).content)))
    ELSE ItemSizes(Tail(its), sizes)

\* Size of the first item whose name ends with img_path, 0 when none does
\* (a size of 0 never beats best_size).
MatchedSize(sizes, img_path) ==
    LET hits == {i \in 1..Len(sizes) : EndsWith(sizes[i][1], img_path)}
    IN  IF hits = {} THEN 0 ELSE sizes[CHOOSE i \in hits : \A j \in hits : i <= j][2]

RECURSIVE BestImage(_, _, _, _, _)
\* for img_src in img_matches: the largest matched image so far.
BestImage(srcs, page_dir, sizes, best_img, best_size) ==
    IF srcs = <<>> THEN best_img
    ELSE LET img_path == ImgPath(page_dir, Head(srcs))
             size == MatchedSize(sizes, img_path)
         IN  IF size > best_size
             THEN BestImage(Tail(srcs), page_dir, sizes, img_path, size)
             ELSE BestImage(Tail(srcs), page_dir, sizes, best_img, best_size)

\* The cover found from the first content page of the spine, NonePath when
\* none is found.
InferCover(sp, its) ==
    IF ContentPages(sp, its) = {} THEN NonePath
    ELSE LET i == CHOOSE x \in ContentPages(sp, its) : \A y \in ContentPages(sp, its) : x <= y
             first_page == its[sp[i].item]
         IN  IF first_page.content = <<>> \/ DecodeFails(first_page.content) THEN NonePath
             ELSE BestImage(ImgSources(first_page.content, 1), Dirname(first_page.file_name),
                            ItemSizes(its, <<>>), NonePath, 0)

\* The largest image of the first page is the cover whenever there is one.
ResolveCoverAlwaysInfers(cover, layout, sp, its) ==
    IF InferCover(sp, its) # NonePath THEN InferCover(sp, its) ELSE cover

\* if not cover_href and metadata.rendition_layout == 'pre-paginated': ...
ResolveCover(cover, layout, sp, its) ==
    IF cover = NonePath /\ layout = "pre-paginated"
    THEN InferCover(sp, its)
    ELSE cover

\* Index of the first item whose name ends with the cover href, 0 if none.
CoverItemOf(cover, its) ==
    LET hits == {i \in 1..Len(its) : its[i].file_name # <<>> /\ EndsWith(its[i].file_name, cover)}
    IN  IF cover = NonePath \/ hits = {} THEN 0
        ELSE CHOOSE i \in hits : \A j \in hits : i <= j

RECURSIVE CssItems(_)
\* for css_path, css_content in css_cache.items(): one item each
CssItems(cache) ==
    IF cache = <<>> THEN <<>>
    ELSE <<[file_name |-> cache[1][1], content |-> cache[1][2], media_type |-> "text/css"]>>
            \o CssItems(Tail(cache))

\* The rendition entries added to the output metadata.
RenditionMeta(md) ==
    (IF Truthy(md.rendition_layout)
     THEN <<[property |-> "rendition:layout", text |-> md.rendition_layout]>> ELSE <<>>)
    \o (IF Truthy(md.rendition_spread)
        THEN <<[property |-> "rendition:spread", text |-> md.rendition_spread]>> ELSE <<>>)
    \o (IF Truthy(md.rendition_orientation)
        THEN <<[property |-> "rendition:orientation", text |-> md.rendition_orientation]>>
        ELSE <<>>)

\* epub.EpubNcx() and epub.EpubNav(), as added to the output.
NcxItem == [file_name |-> <<"toc", ".ncx">>, content |-> <<>>,
            media_type |-> "application/x-dtbncx+xml"]
NavItem == [file_name |-> <<"nav", ".xhtml">>, content |-> <<>>,
            media_type |-> "application/xhtml+xml"]

\* Every navigation page leaves the spine.
WithoutNavigationPages(sp, nav) == SelectSeq(sp, LAMBDA e : ~IsNav(items[e.item].file_name))

\* [item for item in output.spine if item != nav and not (... item[0] == nav)]
WithoutNav(sp, nav) == SelectSeq(sp, LAMBDA e : e.item # nav)


(***************************************************************************)
(* The run.                                                                *)
(***************************************************************************)
NoMetadata ==
    [rendition_layout |-> NoneVal, rendition_spread |-> NoneVal,
     rendition_orientation |-> NoneVal]

Init ==
    /\ files \in SeqsUpTo(FragmentIds, MaxFragments)
    /\ pc = "start"
    /\ idx = 0
    /\ exc = NoneVal
    /\ tmp_exists = FALSE
    /\ added_files = <<>>
    /\ css_cache = <<>>
    /\ metadata = NoMetadata
    /\ cover_href = NonePath
    /\ spine_properties = <<>>
    /\ opf_extracted = FALSE
    /\ opf_metadata = EmptyOpfResult
    /\ items = <<>>
    /\ spine = <<>>
    /\ toc = <<>>
    /\ out_metadata = <<>>
    /\ cover_item = 0

\* The run ends with an exception: nothing after the raising statement runs.
Raise(e) ==
    /\ pc' = "raised"
    /\ exc' = e
    /\ UNCHANGED <<files, idx, tmp_exists, added_files, css_cache, metadata, cover_href,
                   spine_properties, opf_extracted, opf_metadata, items, spine, toc,
                   out_metadata, cover_item>>

\* progress = 1/(file_count) raises ZeroDivisionError
ProgressDivides(file_count) == file_count # 0

\* The statements before the loop: file_count, progress, the empty registry
\* and the empty output.
Begin ==
    /\ pc = "start"
    /\ IF ProgressDivides(Len(files))
       THEN /\ pc' = (IF Len(files) = 0 THEN "synth" ELSE "download")
            /\ idx' = 1
            /\ UNCHANGED <<files, exc, tmp_exists, added_files, css_cache, metadata,
                           cover_href, spine_properties, opf_extracted, opf_metadata,
                           items, spine, toc, out_metadata, cover_item>>
       ELSE Raise("ZeroDivisionError")

\* await self._download_and_write_file(file, temporary_file_location): the
\* fragment is written to the temporary location.
DownloadAndWriteFile ==
    /\ pc = "download"
    /\ tmp_exists' = TRUE
    /\ pc' = "merge"
    /\ UNCHANGED <<files, idx, exc, added_files, css_cache, metadata, cover_href,
                   spine_properties, opf_extracted, opf_metadata, items, spine, toc,
                   out_metadata, cover_item>>

\* The download raises (the transport fails): the exception leaves the
\* function.
DownloadFails ==
    /\ pc = "download"
    /\ Raise("DownloadError")

\* ZipFile(temporary_file_location, "r") raises BadZipFile on bytes that
\* are no archive.
OpenFails ==
    /\ pc = "merge"
    /\ Fragments[files[idx]].bad
    /\ Raise("BadZipFile")

\* The package document is about to be read and ET.fromstring raises an
\* exception the function does not catch.
ExtractRaises(entries, extracted) ==
    IF ~extracted /\ OpfNames(entries) # {}
    THEN FromStringRaises(OpfContent(entries))
    ELSE NoneVal

\* _extract_opf_metadata raises: the exception leaves the function.
ExtractFails ==
    /\ pc = "merge"
    /\ ~Fragments[files[idx]].bad
    /\ ExtractRaises(Fragments[files[idx]].entries, opf_extracted) # NoneVal
    /\ Raise(ExtractRaises(Fragments[files[idx]].entries, opf_extracted))

\* The files of the fragment are merged before its stylesheets: a page is
\* repaired with the stylesheets of the earlier fragments alone.
MergeFragmentFilesFirst ==
    /\ pc = "merge"
    /\ ~Fragments[files[idx]].bad
    /\ ExtractRaises(Fragments[files[idx]].entries, opf_extracted) = NoneVal
    /\ LET entries == Fragments[files[idx]].entries
           opf == ExtractOpf(entries, metadata, cover_href, spine_properties, opf_extracted)
           cache == CollectCssFiles(NameList(entries), entries, css_cache)
           st == MergeFiles(NameList(entries), entries,
                            [added_files |-> added_files, items |-> items,
                             spine |-> spine, toc |-> toc],
                            opf[1].rendition_layout, css_cache, opf[3])
       IN  /\ metadata' = opf[1]
           /\ cover_href' = opf[2]
           /\ spine_properties' = opf[3]
           /\ opf_extracted' = opf[4]
           /\ opf_metadata' = IF ~opf_extracted /\ OpfNames(entries) # {}
                              THEN extract_opf_metadata(ParseXml(OpfContent(entries)))
                              ELSE opf_metadata
           /\ css_cache' = cache
           /\ added_files' = st.added_files
           /\ items' = st.items
           /\ spine' = st.spine
           /\ toc' = st.toc
    /\ idx' = idx + 1
    /\ pc' = (IF idx = Len(files) THEN "synth" ELSE "download")
    /\ UNCHANGED <<files, exc, tmp_exists, out_metadata, cover_item>>

\* The body of "with ZipFile(...) as zipfile" for one fragment: the package
\* document, then the stylesheets, then the other files.
MergeFragment ==
    /\ pc = "merge"
    /\ ~Fragments[files[idx]].bad
    /\ ExtractRaises(Fragments[files[idx]].entries, opf_extracted) = NoneVal
    /\ LET entries == Fragments[files[idx]].entries
           opf == ExtractOpf(entries, metadata, cover_href, spine_properties, opf_extracted)
           cache == CollectCssFiles(NameList(entries), entries, css_cache)
           st == MergeFiles(NameList(entries), entries,
                            [added_files |-> added_files, items |-> items,
                             spine |-> spine, toc |-> toc],
                            opf[1].rendition_layout, cache, opf[3])
       IN  /\ metadata' = opf[1]
           /\ cover_href' = opf[2]
           /\ spine_properties' = opf[3]
           /\ opf_extracted' = opf[4]
           /\ opf_metadata' = IF ~opf_extracted /\ OpfNames(entries) # {}
                              THEN extract_opf_metadata(ParseXml(OpfContent(entries)))
                              ELSE opf_metadata
           /\ css_cache' = cache
           /\ added_files' = st.added_files
           /\ items' = st.items
           /\ spine' = st.spine
           /\ toc' = st.toc
    /\ idx' = idx + 1
    /\ pc' = (IF idx = Len(files) THEN "synth" ELSE "download")
    /\ UNCHANGED <<files, exc, tmp_exists, out_metadata, cover_item>>

\* os.remove(temporary_file_location) and everything after the loop: the
\* merged stylesheets, the cover, the rendition metadata, the NCX and the
\* navigation document, the spine filter and write_epub.
Synthesize ==
    /\ pc = "synth"
    /\ IF ~tmp_exists THEN Raise("FileNotFoundError")
       ELSE LET with_css == items \o CssItems(css_cache)
                cover == ResolveCover(cover_href, metadata.rendition_layout, spine, with_css)
                all == with_css \o <<NcxItem, NavItem>>
            IN  /\ tmp_exists' = FALSE
                /\ items' = all
                /\ cover_href' = cover
                /\ cover_item' = CoverItemOf(cover, with_css)
                /\ out_metadata' = RenditionMeta(metadata)
                /\ spine' = IF metadata.rendition_layout = "pre-paginated"
                            THEN WithoutNav(spine, Len(all)) ELSE spine
                /\ pc' = "done"
                /\ UNCHANGED <<files, idx, exc, added_files, css_cache, metadata,
                               spine_properties, opf_extracted, opf_metadata, toc>>

Next ==
    \/ Begin
    \/ DownloadAndWriteFile
    \/ DownloadFails
    \/ OpenFails
    \/ ExtractFails
    \/ MergeFragment
    \/ Synthesize

Spec == Init /\ [][Next]_vars


(***************************************************************************)
(* Vocabulary of the properties.                                           *)
(***************************************************************************)
\* Number of fragments merged so far.
MergedCount == IF idx = 0 THEN 0 ELSE idx - 1

\* The entries of the k-th fragment of the run.
EntriesOf(k) == Fragments[files[k]].entries

\* The paths the fragments of the inputs hold.
AllPaths ==
    UNION {{Fragments[f].entries[i].name : i \in 1..Len(Fragments[f].entries)} :
           f \in FragmentIds}

\* The entries hold the path.
Supplies(entries, p) == \E i \in 1..Len(entries) : entries[i].name = p

\* A path the merge engine handles by size: not excluded, no stylesheet.
MergedBySize(p) ==
    /\ ~EndsWith(p, <<"/">>)
    /\ p # <<"mimetype">>
    /\ ~StartsWith(p, <<"META-INF", "/">>)
    /\ ~EndsWith(p, <<".opf">>) /\ ~EndsWith(p, <<".ncx">>)
    /\ ~EndsWith(p, <<".css">>)

\* The body lengths of p in the fragments merged so far.
SizesSeen(p) ==
    {BLen(ReadEntry(EntriesOf(k), p)) : k \in {j \in 1..MergedCount : Supplies(EntriesOf(j), p)}}

\* The items of the output that carry the path.
ItemsNamed(its, p) == {i \in 1..Len(its) : its[i].file_name = p}

\* The content the package holds for the path: that of its last item.
StoredBody(its, p) ==
    its[CHOOSE i \in ItemsNamed(its, p) : \A j \in ItemsNamed(its, p) : j <= i].content


(***************************************************************************)
(* C1.  After any sequence of fragments, for every path that is neither    *)
(* excluded nor a stylesheet the size recorded in added_files is the       *)
(* largest body length of the path over the fragments merged so far (and   *)
(* a path no fragment held is not recorded); and a fragment adds a body    *)
(* for a path exactly when the path is new or its body is strictly longer  *)
(* than the recorded size: an equal-length or shorter body stores nothing  *)
(* and leaves what is stored as it is.                                     *)
(***************************************************************************)
SetMax(S) == CHOOSE x \in S : \A y \in S : y <= x

C1_SizeIsMaximum ==
    \A p \in AllPaths :
        MergedBySize(p) =>
            IF SizesSeen(p) = {} THEN ~DictHas(added_files, p)
            ELSE DictHas(added_files, p) /\ DictGet(added_files, p) = SetMax(SizesSeen(p))

C1_StoredOnlyWhenLarger ==
    (pc = "merge" /\ pc' # "raised") =>
        /\ SubSeq(items', 1, Len(items)) = items
        /\ \A p \in AllPaths :
              MergedBySize(p) =>
                  ( (ItemsNamed(items', p) # ItemsNamed(items, p))
                    <=> /\ Supplies(EntriesOf(idx), p)
                        /\ \/ ~DictHas(added_files, p)
                           \/ BLen(ReadEntry(EntriesOf(idx), p)) > DictGet(added_files, p) )

C1_RegistryKeepsLargest == [](C1_SizeIsMaximum) /\ [][C1_StoredOnlyWhenLarger]_vars

\* A later fragment has offered a different body of the same length for a
\* recorded path.
C1_Witness ==
    \E p \in AllPaths : \E j, k \in 1..MergedCount :
        /\ j < k /\ MergedBySize(p)
        /\ Supplies(EntriesOf(j), p) /\ Supplies(EntriesOf(k), p)
        /\ ReadEntry(EntriesOf(j), p) # ReadEntry(EntriesOf(k), p)
        /\ BLen(ReadEntry(EntriesOf(j), p)) = BLen(ReadEntry(EntriesOf(k), p))
        /\ DictGet(added_files, p) = BLen(ReadEntry(EntriesOf(k), p))


(***************************************************************************)
(* C2.  Non-empty beats empty: when, of the two fragments of a run, one    *)
(* holds a path with a zero-byte body and the other holds it with a body   *)
(* of N > 0 bytes, the content the package ends with for the path is the   *)
(* body of the second one (for a page: that body as the merge stores it,   *)
(* repaired or not) and the recorded size is N, in either arrival order.   *)
(***************************************************************************)
\* The stylesheets a page of the run may have been repaired with: the
\* accumulated one and the one of the page's own fragment.
SheetsFor(p, entries) ==
    (IF DictHas(css_cache, CssPathOf(p)) THEN {DictGet(css_cache, CssPathOf(p))} ELSE {})
    \cup (IF Supplies(entries, CssPathOf(p)) THEN {ReadEntry(entries, CssPathOf(p))} ELSE {})

\* The forms in which the merge stores a body.
StoredForms(p, body, entries) ==
    {body} \cup (IF IsHtml(p)
                 THEN {fix_fixed_layout_page(body, c) : c \in SheetsFor(p, entries)}
                 ELSE {})

\* Fragment a of the run holds p empty, fragment b holds it non-empty.
EmptyThenFull(p, a, b) ==
    /\ MergedBySize(p)
    /\ Supplies(EntriesOf(a), p) /\ ReadEntry(EntriesOf(a), p) = <<>>
    /\ Supplies(EntriesOf(b), p) /\ ReadEntry(EntriesOf(b), p) # <<>>

C2_NonEmptyBeatsEmpty ==
    (pc = "done" /\ Len(files) = 2) =>
        \A p \in AllPaths : \A a, b \in {1, 2} :
            EmptyThenFull(p, a, b) =>
                /\ DictGet(added_files, p) = BLen(ReadEntry(EntriesOf(b), p))
                /\ StoredBody(items, p) \in StoredForms(p, ReadEntry(EntriesOf(b), p), EntriesOf(b))

\* The run has ended with the empty body arrived first.
C2_Witness ==
    /\ pc = "done" /\ Len(files) = 2
    /\ \E p \in AllPaths : EmptyThenFull(p, 1, 2)

(***************************************************************************)
(* C3.  Merging the fragment that was merged just before changes nothing   *)
(* outside the stylesheets: the registry with its sizes, the items with    *)
(* their bodies, the spine and the TOC are what they were.                 *)
(***************************************************************************)
C3_SameFragmentAgain ==
    (pc = "merge" /\ pc' # "raised" /\ idx > 1 /\ files[idx] = files[idx - 1]) =>
        /\ added_files' = added_files
        /\ items' = items
        /\ spine' = spine
        /\ toc' = toc

C3_RepeatedMergeIsIdle == [][C3_SameFragmentAgain]_vars

\* A fragment with pages and files has been merged twice in succession.
C3_Witness ==
    /\ MergedCount >= 2 /\ pc \in {"download", "synth"}
    /\ files[MergedCount] = files[MergedCount - 1]
    /\ \E p \in AllPaths : IsHtml(p) /\ Supplies(EntriesOf(MergedCount), p)
    /\ \E p \in AllPaths : MergedBySize(p) /\ ~IsHtml(p) /\ Supplies(EntriesOf(MergedCount), p)


(***************************************************************************)
(* C4.  Replacement in place: the package written at the end holds exactly *)
(* one item for every kept path, and that item carries the largest body    *)
(* seen; no item with a smaller body of the path is left.                  *)
(***************************************************************************)
C4_OneItemPerKeptPath ==
    pc = "done" =>
        \A p \in DictKeys(added_files) :
            /\ Cardinality(ItemsNamed(items, p)) = 1
            /\ \A i \in ItemsNamed(items, p) :
                  IsHtml(p) \/ BLen(items[i].content) = DictGet(added_files, p)

(***************************************************************************)
(* C5.  The spine lists every page path at most once, in the order in      *)
(* which the paths were first stored: a replacement by a larger body adds  *)
(* no second spine entry.                                                  *)
(***************************************************************************)
SpinePath(i) == items[spine[i].item].file_name

C5_SpineListsPathOnce ==
    \A i, j \in 1..Len(spine) : i # j => SpinePath(i) # SpinePath(j)

(***************************************************************************)
(* C6.  A run given no fragment ends without an exception, with a package  *)
(* that holds no merged file, an empty spine and no rendition metadata.    *)
(***************************************************************************)
C6_NoFragmentsNoError ==
    files = <<>> =>
        /\ pc # "raised"
        /\ pc = "done" => (added_files = <<>> /\ spine = <<>> /\ out_metadata = <<>>)

(***************************************************************************)
(* C7.  However the run ends, normally or with an exception raised while   *)
(* a fragment is downloaded, opened or merged, the temporary working copy  *)
(* is gone.                                                                *)
(***************************************************************************)
C7_NoTemporaryFileLeft == pc \in {"done", "raised"} => ~tmp_exists

(***************************************************************************)
(* C8.  Metadata is first-wins: once a package document has been           *)
(* processed, the merge of a later fragment changes neither the rendition  *)
(* layout, spread and orientation, nor the cover href taken from the       *)
(* metadata, nor the spine-properties map, whatever package document the   *)
(* fragment holds.                                                         *)
(***************************************************************************)
C8_LaterFragmentKeepsMetadata ==
    (opf_extracted /\ pc = "merge") =>
        /\ metadata' = metadata
        /\ cover_href' = cover_href
        /\ spine_properties' = spine_properties

C8_MetadataFirstWins == [][C8_LaterFragmentKeepsMetadata]_vars

\* The package document of the first archive of the k-th fragment, <<>> if
\* it has none.
OpfOf(k) ==
    IF OpfNames(EntriesOf(k)) = {} THEN <<>>
    ELSE EntriesOf(k)[CHOOSE i \in OpfNames(EntriesOf(k)) :
                          \A j \in OpfNames(EntriesOf(k)) : i <= j].content

\* Two merged fragments held package documents that extract to different
\* layouts, covers and spine properties.
C8_Witness ==
    /\ opf_extracted
    /\ \E j, k \in 1..MergedCount :
          /\ j < k /\ OpfOf(j) # <<>> /\ OpfOf(k) # <<>>
          /\ LET first == extract_opf_metadata(ParseXml(OpfOf(j)))
                 later == extract_opf_metadata(ParseXml(OpfOf(k)))
             IN  /\ Truthy(first.rendition_layout) /\ Truthy(later.rendition_layout)
                 /\ first.rendition_layout # later.rendition_layout
                 /\ first.cover_href # later.cover_href /\ later.cover_href # NonePath
                 /\ first.spine_properties # later.spine_properties
                 /\ metadata.rendition_layout = first.rendition_layout


(***************************************************************************)
(* C9.  Longest rule wins: when a fragment's content is merged into a      *)
(* stylesheet already accumulated, the result holds exactly one rule for   *)
(* every rule key of the stored and the incoming content, and that rule is *)
(* the longest of all the candidates with the key, several candidates of   *)
(* one stylesheet included; among the longest the earliest met is kept.    *)
(***************************************************************************)
RECURSIVE Candidates(_)
\* The candidate rules of the chunks of a stylesheet: [key, text].
Candidates(chunks) ==
    IF chunks = <<>> THEN <<>>
    ELSE IF IsRule(Head(chunks)) /\ Truthy(get_css_rule_key(Head(chunks)))
    THEN <<[key |-> get_css_rule_key(Head(chunks)), text |-> RuleText(Head(chunks))]>>
             \o Candidates(Tail(chunks))
    ELSE Candidates(Tail(chunks))

RulesIn(content) == Candidates(SplitOn(DropBad(content), "}"))

WithKey(cands, k) == {i \in 1..Len(cands) : cands[i].key = k}

\* The earliest of the longest candidates with the key.
FirstLongest(cands, k) ==
    cands[CHOOSE i \in WithKey(cands, k) :
              /\ \A j \in WithKey(cands, k) : BLen(cands[j].text) <= BLen(cands[i].text)
              /\ \A j \in WithKey(cands, k) :
                    BLen(cands[j].text) = BLen(cands[i].text) => i <= j].text

\* The fragment being merged adds content to the accumulated stylesheet c.
MergesInto(c) ==
    /\ pc = "merge" /\ pc' # "raised"
    /\ IsCss(c) /\ DictHas(css_cache, c)
    /\ Supplies(EntriesOf(idx), c) /\ ReadEntry(EntriesOf(idx), c) # <<>>

C9_MergeKeepsLongest ==
    \A c \in AllPaths :
        MergesInto(c) =>
            LET cands == RulesIn(DictGet(css_cache, c)) \o RulesIn(ReadEntry(EntriesOf(idx), c))
                kept == RulesIn(DictGet(css_cache', c))
            IN  /\ {kept[i].key : i \in 1..Len(kept)} = {cands[i].key : i \in 1..Len(cands)}
                /\ \A i \in 1..Len(kept) :
                      /\ Cardinality(WithKey(kept, kept[i].key)) = 1
                      /\ kept[i].text = FirstLongest(cands, kept[i].key)

C9_LongestRuleWins == [][C9_MergeKeepsLongest]_vars

(***************************************************************************)
(* C10.  Stylesheet merging is commutative: when the two fragments of a    *)
(* run both hold non-empty content for a stylesheet path, the merged       *)
(* content is the one the run with the fragments in the other order ends   *)
(* with.                                                                   *)
(***************************************************************************)
RECURSIVE CssAfter(_, _)
\* The accumulated stylesheets after the fragments fs, merged in order.
CssAfter(fs, cache) ==
    IF fs = <<>> THEN cache
    ELSE CssAfter(Tail(fs),
                  CollectCssFiles(NameList(Fragments[Head(fs)].entries),
                                  Fragments[Head(fs)].entries, cache))

\* Both fragments of the run hold non-empty content for the stylesheet c.
BothContribute(c) ==
    /\ pc = "done" /\ Len(files) = 2
    /\ IsCss(c)
    /\ \A k \in {1, 2} : Supplies(EntriesOf(k), c) /\ ReadEntry(EntriesOf(k), c) # <<>>

Swapped == <<files[2], files[1]>>

C10_MergeCommutes ==
    \A c \in AllPaths :
        BothContribute(c) => DictGet(css_cache, c) = DictGet(CssAfter(Swapped, <<>>), c)

(***************************************************************************)
(* C10, as amended.  In either arrival order the merged stylesheet holds   *)
(* the same number of rules, one for every rule key of the two             *)
(* stylesheets, and for every key that each of the two stylesheets holds   *)
(* at most once and whose candidates differ in length it holds the longer  *)
(* rule.  (The order of the rules, the rule kept among candidates of equal *)
(* length and the rule kept for a key that a stylesheet holds twice depend *)
(* on the arrival order.)                                                  *)
(***************************************************************************)
KeysOf(cands) == {cands[i].key : i \in 1..Len(cands)}

\* The rules a stylesheet is made of, as texts.
RuleChunks(content) == SelectSeq(SplitOn(content, "}"), IsRule)
RuleTexts(content) == {RuleText(RuleChunks(content)[i]) : i \in 1..Len(RuleChunks(content))}

\* Each stylesheet holds the key at most once, and if both do, with rules
\* of different lengths.
DecidedByLength(k, one, two) ==
    /\ Cardinality(WithKey(one, k)) <= 1
    /\ Cardinality(WithKey(two, k)) <= 1
    /\ \A i \in WithKey(one, k) : \A j \in WithKey(two, k) :
          BLen(one[i].text) # BLen(two[j].text)

C10_SameRulesEitherOrder ==
    \A c \in AllPaths :
        BothContribute(c) =>
            LET here == DictGet(css_cache, c)
                there == DictGet(CssAfter(Swapped, <<>>), c)
                one == RulesIn(ReadEntry(EntriesOf(1), c))
                two == RulesIn(ReadEntry(EntriesOf(2), c))
                keys == KeysOf(one) \cup KeysOf(two)
            IN  /\ Len(RuleChunks(here)) = Cardinality(keys)
                /\ Len(RuleChunks(there)) = Cardinality(keys)
                /\ \A k \in keys :
                      DecidedByLength(k, one, two) =>
                          FirstLongest(one \o two, k) \in RuleTexts(here) \cap RuleTexts(there)

\* Two different stylesheets for one path, with a key whose two rules
\* differ in length, have been merged.
C10_Witness ==
    \E c \in AllPaths :
        /\ BothContribute(c)
        /\ ReadEntry(EntriesOf(1), c) # ReadEntry(EntriesOf(2), c)
        /\ LET one == RulesIn(ReadEntry(EntriesOf(1), c))
               two == RulesIn(ReadEntry(EntriesOf(2), c))
           IN  \E k \in KeysOf(one) \cap KeysOf(two) : DecidedByLength(k, one, two)

(***************************************************************************)
(* C11.  Two @font-face rules that declare different font families get     *)
(* different rule keys, and when a stylesheet is merged into the           *)
(* accumulated one, a rule of each of the two families is in the result:   *)
(* neither takes the place of the other, whichever is longer.              *)
(***************************************************************************)
\* The font family a rule declares, "" when it declares none: the value
\* after "font-family:" up to the ";", without quotes and blanks.
DeclaredFamily(chunk) ==
    LET i == FirstIdx(chunk, "font-family:")
        value == SubSeq(chunk, i + 1, i + RunLen(chunk, i + 1, {";"}))
    IN  IF i = 0 THEN ""
        ELSE Flat(SelectSeq(value, LAMBDA x : x \notin Quotes \cup WhiteSpace))

\* The @font-face rules of a stylesheet that declare a family; a comment
\* may stand before the rule.
IsFontFace(chunk) ==
    /\ IsRule(chunk)
    /\ SelectSeq(SplitOn(chunk, "{")[1], LAMBDA x : x \notin WhiteSpace \cup {"/*c*/"})
           = <<"@font-face">>
FontFaces(content) ==
    SelectSeq(SplitOn(DropBad(content), "}"),
              LAMBDA chunk : IsFontFace(chunk) /\ DeclaredFamily(chunk) # "")
FamiliesIn(content) ==
    {DeclaredFamily(FontFaces(content)[i]) : i \in 1..Len(FontFaces(content))}

C11_MergeKeepsFamilies ==
    \A c \in AllPaths :
        MergesInto(c) =>
            LET rules == FontFaces(DictGet(css_cache, c))
                             \o FontFaces(ReadEntry(EntriesOf(idx), c))
            IN  \A i, j \in 1..Len(rules) :
                    DeclaredFamily(rules[i]) # DeclaredFamily(rules[j]) =>
                        /\ get_css_rule_key(rules[i]) # get_css_rule_key(rules[j])
                        /\ {DeclaredFamily(rules[i]), DeclaredFamily(rules[j])}
                               \subseteq FamiliesIn(DictGet(css_cache', c))

C11_FontFamiliesSurvive == [][C11_MergeKeepsFamilies]_vars

(***************************************************************************)
(* C12.  The stylesheets the package is written with hold no @font-face    *)
(* rule that declares no font family, whether the path came with one       *)
(* fragment or with several.                                               *)
(***************************************************************************)
\* The @font-face rules of a stylesheet that declare no family.
NamelessFontFaces(content) ==
    SelectSeq(SplitOn(DropBad(content), "}"),
              LAMBDA chunk : IsFontFace(chunk) /\ DeclaredFamily(chunk) = "")

C12_NoFontFaceWithoutFamily ==
    pc = "done" =>
        \A i \in 1..Len(items) :
            items[i].media_type = "text/css" => NamelessFontFaces(items[i].content) = <<>>

(***************************************************************************)
(* C13.  The end-to-end scenario: three fragments bring page1.xhtml with   *)
(* bodies of 0, 120 and 45 bytes in that order, the first brings page1.css *)
(* as body{width:600px;height:800px;} and the second as                    *)
(* body{width:600px;height:800px;color:red;}.  After the three fragments   *)
(* the body kept for the page is the one of 120 bytes, the merged          *)
(* stylesheet holds the longer body rule, and the stored page is repaired: *)
(* it has the viewport tag of 600 by 800 and no degenerate inline style.   *)
(***************************************************************************)
\* The fragments of the run are those of the scenario and all are merged.
Scenario ==
    /\ Len(files) = 3 /\ MergedCount = 3
    /\ \A k \in 1..3 : ~Fragments[files[k]].bad /\ Supplies(EntriesOf(k), Page1)
    /\ BLen(ReadEntry(EntriesOf(1), Page1)) = 0
    /\ BLen(ReadEntry(EntriesOf(2), Page1)) = 120
    /\ BLen(ReadEntry(EntriesOf(3), Page1)) = 45
    /\ \A k \in 1..2 : Supplies(EntriesOf(k), Css1)
    /\ ReadEntry(EntriesOf(1), Css1) = CssBody
    /\ ReadEntry(EntriesOf(2), Css1) = CssBodyRed

\* The text holds the tokens of part, in a row.
HasPart(text, part) ==
    \E i \in 1..(Len(text) - Len(part) + 1) : SubSeq(text, i, i + Len(part) - 1) = part

FixedStyle ==
    <<"style=\"", "width:", "600", "px", ";", " ", "height:", "800", "px", ";", "\"">>

\* The outcome the scenario names.
ScenarioOutcome ==
    LET body == ReadEntry(EntriesOf(2), Page1)
        stored == StoredBody(items, Page1)
    IN  /\ DictGet(added_files, Page1) = 120
        /\ CssBodyRed \in RuleTexts(DictGet(css_cache, Css1))
        /\ CssBody \notin RuleTexts(DictGet(css_cache, Css1))
        /\ HasPart(stored, <<"<head>", "\n    ">> \o ViewportTag("600", "800"))
        /\ \A i \in 1..Len(stored) : ~BrokenStyleAt(stored, i)
        /\ (\E i \in 1..Len(body) : BrokenStyleAt(body, i)) => HasPart(stored, FixedStyle)
        /\ SelectSeq(stored, LAMBDA x : x \in {"<html>", "<img", "a", "b", "</html>"})
              = SelectSeq(body, LAMBDA x : x \in {"<html>", "<img", "a", "b", "</html>"})

C13_ScenarioRepairsPage == Scenario => ScenarioOutcome

(***************************************************************************)
(* C13, as amended.  The scenario, when the package document met first is  *)
(* in the first or the second fragment and declares the pre-paginated      *)
(* layout, and the body of 120 bytes is UTF-8 text with a <head> tag and   *)
(* no viewport tag: then the outcome is the one the scenario names.        *)
(***************************************************************************)
FixedLayoutScenario ==
    /\ Scenario
    /\ \E k \in 1..2 : OpfNames(EntriesOf(k)) # {}
    /\ metadata.rendition_layout = "pre-paginated"
    /\ LET body == ReadEntry(EntriesOf(2), Page1)
       IN  ~DecodeFails(body) /\ HasTok(body, "<head>") /\ ~HasTok(body, NameViewport)

C13_FixedLayoutScenarioRepairsPage == FixedLayoutScenario => ScenarioOutcome

\* The run of the scenario is over, and its page had a degenerate style.
C13_Witness ==
    /\ pc = "done" /\ FixedLayoutScenario
    /\ \E i \in 1..Len(ReadEntry(EntriesOf(2), Page1)) :
          BrokenStyleAt(ReadEntry(EntriesOf(2), Page1), i)

(***************************************************************************)
(* C14.  Cover precedence: at synthesis a cover href that came from the    *)
(* package document stays as it is, and a cover is inferred from the       *)
(* images only when the package document gave none and the layout is       *)
(* pre-paginated; with any other layout an unset cover stays unset.        *)
(***************************************************************************)
C14_SynthesisKeepsCover ==
    (pc = "synth" /\ pc' = "done") =>
        /\ opf_metadata.cover_href # NonePath => cover_href' = opf_metadata.cover_href
        /\ metadata.rendition_layout # "pre-paginated" => cover_href' = cover_href
        /\ cover_href' # cover_href =>
              /\ cover_href = NonePath
              /\ metadata.rendition_layout = "pre-paginated"

C14_CoverPrecedence == [][C14_SynthesisKeepsCover]_vars

\* The package document named no cover and one was inferred from the
\* images of the first page.
C14_Witness ==
    /\ pc = "done" /\ opf_extracted
    /\ opf_metadata.cover_href = NonePath
    /\ cover_href # NonePath /\ cover_item # 0

(***************************************************************************)
(* C15.  When the layout resolved at synthesis is pre-paginated, the final *)
(* spine holds no navigation document (a page named nav.xhtml, nav.html,   *)
(* toc.xhtml or toc.html, in any case), whichever fragments brought the    *)
(* navigation page and the package document.                               *)
(***************************************************************************)
NavigationNames ==
    {<<"nav", ".xhtml">>, <<"nav", ".html">>, <<"toc", ".xhtml">>, <<"toc", ".html">>}

IsNavigationDocument(path) == Lower(Basename(path)) \in NavigationNames

C15_NoNavigationInFixedSpine ==
    (pc = "done" /\ metadata.rendition_layout = "pre-paginated") =>
        \A i \in 1..Len(spine) : ~IsNavigationDocument(items[spine[i].item].file_name)

(***************************************************************************)
(* C16.  A package document that cannot be parsed as XML never makes       *)
(* _extract_opf_metadata raise: the result has the layout, the spread, the *)
(* orientation, the cover id and the cover href unset and no spine         *)
(* properties, and the run goes on with the fragments that follow.         *)
(***************************************************************************)
\* The fragments with a package document, and the one whose document is
\* read: the first of them in arrival order.
WithOpf == {k \in 1..Len(files) : ~Fragments[files[k]].bad /\ OpfNames(EntriesOf(k)) # {}}
FirstWithOpf == CHOOSE k \in WithOpf : \A j \in WithOpf : k <= j

\* The document is no well-formed XML.
Unparseable(content) == ~ParseXml(content).ok

C16_MalformedOpfNeverRaises ==
    (WithOpf # {} /\ Unparseable(OpfContent(EntriesOf(FirstWithOpf)))) =>
        /\ ~(pc = "raised" /\ idx = FirstWithOpf
                /\ exc \notin {"DownloadError", "BadZipFile"})
        /\ MergedCount >= FirstWithOpf => opf_metadata = EmptyOpfResult

(***************************************************************************)
(* C17.  Merging the fragment that was merged just before leaves the       *)
(* accumulated stylesheets as they were: for every stylesheet path of the  *)
(* fragment the content after the second merge is, byte for byte, the      *)
(* content stored after the first.                                         *)
(***************************************************************************)
C17_SameFragmentAgainKeepsCss ==
    (pc = "merge" /\ pc' # "raised" /\ idx > 1 /\ files[idx] = files[idx - 1]) =>
        \A c \in AllPaths :
            (IsCss(c) /\ Supplies(EntriesOf(idx), c) /\ DictHas(css_cache, c)) =>
                DictGet(css_cache', c) = DictGet(css_cache, c)

C17_RepeatedMergeKeepsCss == [][C17_SameFragmentAgainKeepsCss]_vars

(***************************************************************************)
(* C18.  Empty stylesheet content is ignored: merging a fragment whose     *)
(* content for a stylesheet path is empty leaves the accumulation of that  *)
(* path as it was (absent if it was absent), and the accumulated           *)
(* stylesheets are at any time what they would be had the empty versions   *)
(* never arrived, so that a later non-empty version is the seed.           *)
(***************************************************************************)
\* The entries of an archive without its empty stylesheets.
WithoutEmptyCss(entries) ==
    SelectSeq(entries, LAMBDA e : ~(IsCss(e.name) /\ e.content = <<>>))

RECURSIVE CssWithoutEmpty(_)
\* The accumulated stylesheets after the first k fragments of the run, had
\* these come without their empty stylesheets.
CssWithoutEmpty(k) ==
    IF k = 0 THEN <<>>
    ELSE CollectCssFiles(NameList(WithoutEmptyCss(EntriesOf(k))),
                         WithoutEmptyCss(EntriesOf(k)), CssWithoutEmpty(k - 1))

C18_AsIfEmptyNeverArrived == css_cache = CssWithoutEmpty(MergedCount)

C18_EmptyLeavesPathAlone ==
    (pc = "merge" /\ pc' # "raised") =>
        \A c \in AllPaths :
            (IsCss(c) /\ Supplies(EntriesOf(idx), c) /\ ReadEntry(EntriesOf(idx), c) = <<>>) =>
                /\ DictHas(css_cache', c) = DictHas(css_cache, c)
                /\ DictHas(css_cache, c) => DictGet(css_cache', c) = DictGet(css_cache, c)

C18_EmptyStylesheetIgnored == [](C18_AsIfEmptyNeverArrived) /\ [][C18_EmptyLeavesPathAlone]_vars

\* An empty version of a stylesheet came first and a later fragment's
\* content was stored for the path as it came.
C18_Witness ==
    /\ MergedCount >= 2
    /\ \E c \in DictKeys(css_cache) :
          /\ Supplies(EntriesOf(1), c) /\ ReadEntry(EntriesOf(1), c) = <<>>
          /\ Supplies(EntriesOf(2), c) /\ DictGet(css_cache, c) = ReadEntry(EntriesOf(2), c)

(***************************************************************************)
(* C19.  When the package document names a cover id and the manifest has   *)
(* an item of that id, the cover href _extract_opf_metadata returns is the *)
(* href of the first item of that id, wherever an item with the            *)
(* cover-image property stands in the manifest.                            *)
(***************************************************************************)
\* The package document that was read, parsed.
DocumentRead == ParseXml(OpfContent(EntriesOf(FirstWithOpf)))

\* The cover ids its meta elements name, and the manifest items of an id.
NamedCoverIds(doc) ==
    {doc.metas[i].content : i \in {j \in 1..Len(doc.metas) : doc.metas[j].name = "cover"}}
ItemsOfId(doc, id) == {i \in 1..Len(doc.items) : doc.items[i].id = id}

C19_CoverIdBeforeCoverImage ==
    (opf_extracted /\ DocumentRead.ok
        /\ DocumentRead.metadata = "opf" /\ DocumentRead.manifest = "opf") =>
        \A id \in NamedCoverIds(DocumentRead) :
            ItemsOfId(DocumentRead, id) # {} =>
                opf_metadata.cover_href =
                    DocumentRead.items[CHOOSE i \in ItemsOfId(DocumentRead, id) :
                                          \A j \in ItemsOfId(DocumentRead, id) : i <= j].href

(***************************************************************************)
(* C20.  _extract_opf_metadata finds the metadata, manifest and spine      *)
(* elements when they are in the package-document namespace and when they  *)
(* are written with no namespace, and returns the same fields for the two  *)
(* forms of a document.                                                    *)
(***************************************************************************)
\* The document with every element in the package-document namespace.
InNamespace(how) == IF how = "plain" THEN "opf" ELSE how
Qualified(doc) ==
    [doc EXCEPT !.metadata = InNamespace(doc.metadata),
                !.manifest = InNamespace(doc.manifest),
                !.spine = InNamespace(doc.spine),
                !.metas = [i \in 1..Len(doc.metas) |->
                              [doc.metas[i] EXCEPT !.tag = "{opf}meta"]],
                !.itemrefs = [i \in 1..Len(doc.itemrefs) |->
                                 [doc.itemrefs[i] EXCEPT !.tag = "{opf}itemref"]]]

C20_SameFieldsWithOrWithoutNamespace ==
    (opf_extracted /\ DocumentRead.ok) =>
        opf_metadata = extract_opf_metadata(Qualified(DocumentRead))

(***************************************************************************)
(* C21.  Excluded paths stay out: a path that ends in "/", is "mimetype",  *)
(* starts with "META-INF/" or ends in ".opf" or ".ncx" is never a key of   *)
(* the registry and never the name of a merged item of the package,        *)
(* whatever its size and its fragment; and a stylesheet path is never a    *)
(* key of the registry, no merged item carries it, and the items the       *)
(* package ends with for stylesheets are those of the accumulator, one for *)
(* each accumulated path with the accumulated content.                     *)
(***************************************************************************)
\* A path should_add_file refuses whatever its size.
Excluded(p) ==
    \/ EndsWith(p, <<"/">>)
    \/ p = <<"mimetype">>
    \/ StartsWith(p, <<"META-INF", "/">>)
    \/ EndsWith(p, <<".opf">>) \/ EndsWith(p, <<".ncx">>)

\* The items the merge of the fragments added: all of them before
\* synthesis, and afterwards those that stand before the stylesheets, the
\* NCX and the navigation document.
MergedItems ==
    IF pc = "done" THEN SubSeq(items, 1, Len(items) - Len(css_cache) - 2) ELSE items

C21_ExcludedPathsStayOut ==
    /\ \A p \in DictKeys(added_files) : ~Excluded(p) /\ ~IsCss(p)
    /\ \A i \in 1..Len(MergedItems) :
          ~Excluded(MergedItems[i].file_name) /\ ~IsCss(MergedItems[i].file_name)
    /\ pc = "done" =>
          SubSeq(items, Len(MergedItems) + 1, Len(items) - 2) = CssItems(css_cache)

\* The run is over and its fragments held an excluded path with content, a
\* directory marker and a stylesheet with content.
C21_Witness ==
    /\ pc = "done"
    /\ \E k \in 1..Len(files) : \E i, j, c \in 1..Len(EntriesOf(k)) :
          /\ Excluded(EntriesOf(k)[i].name) /\ EntriesOf(k)[i].content # <<>>
          /\ EndsWith(EntriesOf(k)[j].name, <<"/">>)
          /\ IsCss(EntriesOf(k)[c].name)
    /\ css_cache # <<>>

(***************************************************************************)
(* C22.  A page is stored byte for byte as its fragment supplied it unless, *)
(* at the moment it is merged, the layout is pre-paginated, a non-empty    *)
(* stylesheet is accumulated for the companion path of the page, the page  *)
(* and the stylesheet are valid UTF-8, and the body rule of the stylesheet *)
(* gives a width and a height in pixels.                                   *)
(***************************************************************************)
\* The stylesheet has a rule of selector body that declares the dimension
\* (width or height) as a number of pixels.
BodyRuleDeclares(css, dim) ==
    \E r \in 1..Len(SplitOn(css, "}")) :
        LET rule == SplitOn(css, "}")[r]
        IN  /\ IsRule(rule)
            /\ Strip(SplitOn(rule, "{")[1]) = <<"body">>
            /\ \E k \in 1..Len(rule) :
                  LET d == k + 1 + WsLen(rule, k + 1)
                  IN  /\ rule[k] = (IF dim = "width" THEN "width:" ELSE "height:")
                      /\ d + 1 <= Len(rule)
                      /\ rule[d] \in DigitTokens /\ rule[d + 1] = "px"

\* The conditions of the repair, for a page of the given body, with the
\* layout and the stylesheets as they are when the page is stored.
RepairApplies(p, body, layout, cache) ==
    /\ layout = "pre-paginated"
    /\ DictHas(cache, CssPathOf(p))
    /\ LET css == DictGet(cache, CssPathOf(p))
       IN  /\ css # <<>>
           /\ ~DecodeFails(body) /\ ~DecodeFails(css)
           /\ BodyRuleDeclares(css, "width") /\ BodyRuleDeclares(css, "height")

C22_StoredAsSupplied ==
    (pc = "merge" /\ pc' # "raised") =>
        \A n \in (Len(items) + 1)..Len(items') :
            LET p == items'[n].file_name
                body == ReadEntry(EntriesOf(idx), p)
            IN  (IsHtml(p) /\ ~RepairApplies(p, body, metadata'.rendition_layout, css_cache'))
                    => items'[n].content = body

EntryContents(entries, html) ==
    {entries[i].content :
        i \in {j \in 1..Len(entries) :
                  IF html THEN IsHtml(entries[j].name) ELSE IsCss(entries[j].name)}}
FragmentPages == UNION {EntryContents(Fragments[f].entries, TRUE) : f \in FragmentIds}
FragmentSheets == UNION {EntryContents(Fragments[f].entries, FALSE) : f \in FragmentIds}

\* The page bodies the package holds (repaired ones among them) and the
\* accumulated stylesheets (merged ones among them).
StoredPages == {items[i].content : i \in {j \in 1..Len(items) : IsHtml(items[j].file_name)}}
AccumulatedSheets == {css_cache[i][2] : i \in 1..Len(css_cache)}

\* Number of viewport attributes of a page.
Viewports(html) == Len(SelectSeq(html, LAMBDA x : x = NameViewport))

\* A second repair with the same stylesheet changes nothing.
RepairedOnce(html, css) ==
    LET once == fix_fixed_layout_page(html, css)
        twice == fix_fixed_layout_page(once, css)
    IN  /\ twice = once
        /\ Viewports(twice) = Viewports(once)

IdempotentOnFragments ==
    \A html \in FragmentPages : \A css \in FragmentSheets : RepairedOnce(html, css)

\* The pairs of fragment contents are checked once; a state adds the pairs
\* with a page the merge has repaired or a stylesheet it has merged.
C23_RepairIsIdempotent ==
    /\ IdempotentOnFragments
    /\ \A html \in FragmentPages \cup StoredPages :
          \A css \in AccumulatedSheets \ FragmentSheets : RepairedOnce(html, css)
    /\ \A html \in StoredPages \ FragmentPages :
          \A css \in FragmentSheets : RepairedOnce(html, css)

\* The package holds a page the repair has changed: it got the viewport
\* tag and its degenerate style was filled in.
C23_Witness ==
    \E i \in 1..Len(items) : \E css \in AccumulatedSheets :
        /\ IsHtml(items[i].file_name)
        /\ items[i].content = fix_fixed_layout_page(BodyFull, css)
        /\ items[i].content # BodyFull
        /\ Viewports(items[i].content) = 1
        /\ HasPart(items[i].content, FixedStyle)

(***************************************************************************)
(* C24.  The order of the steps within a fragment: the package document    *)
(* first (when none was processed yet), then every stylesheet of the       *)
(* fragment, then the other paths.  So a page of fragment i is stored      *)
(* under the layout known after the package document of fragment i and is  *)
(* repaired with the companion stylesheet accumulated from the fragments 1 *)
(* to i, the contribution of fragment i included wherever the stylesheet   *)
(* stands in the archive; and what a later fragment brings changes no      *)
(* page already stored.                                                    *)
(***************************************************************************)
\* The stylesheets accumulated from the first k fragments of the run.
CssUpTo(k) == CssAfter(SubSeq(files, 1, k), <<>>)

C24_PageMeetsOwnStylesheet ==
    /\ (pc = "merge" /\ pc' # "raised") =>
          /\ css_cache' = CssUpTo(idx)
          /\ \A n \in (Len(items) + 1)..Len(items') :
                LET p == items'[n].file_name
                IN  IsHtml(p) =>
                        items'[n].content =
                            PageContent(p, ReadEntry(EntriesOf(idx), p),
                                        metadata'.rendition_layout, CssUpTo(idx))
    /\ SubSeq(items', 1, Len(items)) = items

C24_StepsInFixedOrder == [][C24_PageMeetsOwnStylesheet]_vars

\* A fragment that lists a page before its companion stylesheet was merged
\* when nothing was accumulated for that stylesheet, and the page is stored
\* repaired; a later fragment has brought more rules for the stylesheet.
C24_Witness ==
    /\ MergedCount = 3
    /\ ~DictHas(CssUpTo(1), Css1)
    /\ \E i, j \in 1..Len(EntriesOf(2)) :
          i < j /\ EntriesOf(2)[i].name = Page1 /\ EntriesOf(2)[j].name = Css1
    /\ \E n \in ItemsNamed(items, Page1) :
          /\ items[n].content # ReadEntry(EntriesOf(2), Page1)
          /\ items[n].content =
                fix_fixed_layout_page(ReadEntry(EntriesOf(2), Page1), DictGet(CssUpTo(2), Css1))
    /\ DictGet(css_cache, Css1) # DictGet(CssUpTo(2), Css1)

(***************************************************************************)
(* C25.  When the cover is inferred (the package document gave none and    *)
(* the layout is pre-paginated), the page looked at is the first page of   *)
(* the spine that is no navigation page, the content read is the body the  *)
(* registry kept for its path, and the cover is, among the images that     *)
(* body references and that match a stored non-empty file, the one with    *)
(* the largest byte length, the first referenced among the largest; with   *)
(* no such image the cover stays unset.                                    *)
(***************************************************************************)
\* The path of the first content page of the spine.
FirstPagePath ==
    LET pages == ContentPages(spine, items)
    IN  items[spine[CHOOSE i \in pages : \A j \in pages : i <= j].item].file_name

\* The images the kept body of the page references, as paths from the root
\* of the package, in reference order.
ReferencedImages(p) ==
    LET srcs == ImgSources(StoredBody(items, p), 1)
    IN  [r \in 1..Len(srcs) |-> ImgPath(Dirname(p), srcs[r])]

\* Byte length of the stored non-empty file the image path matches, 0 when
\* it matches none.
StoredSize(img) == MatchedSize(ItemSizes(items, <<>>), img)

\* The cover the claim names for the page.
LargestReferenced(p) ==
    LET imgs == ReferencedImages(p)
        hits == {r \in 1..Len(imgs) : StoredSize(imgs[r]) > 0}
    IN  IF hits = {} THEN NonePath
        ELSE imgs[CHOOSE r \in hits :
                      /\ \A s \in hits : StoredSize(imgs[s]) <= StoredSize(imgs[r])
                      /\ \A s \in hits : StoredSize(imgs[s]) = StoredSize(imgs[r]) => r <= s]

C25_CoverFromKeptFirstPage ==
    (/\ pc = "done"
     /\ opf_metadata.cover_href = NonePath
     /\ metadata.rendition_layout = "pre-paginated"
     /\ ContentPages(spine, items) # {}) =>
        cover_href = IF DecodeFails(StoredBody(items, FirstPagePath)) THEN NonePath
                     ELSE LargestReferenced(FirstPagePath)

(***************************************************************************)
(* C26.  The registry only grows while the fragments are consumed: a path  *)
(* once recorded stays recorded, and the size recorded for it never gets   *)
(* smaller from one step to the next.                                      *)
(***************************************************************************)
C26_StepKeepsRegistry ==
    \A p \in DictKeys(added_files) :
        /\ DictHas(added_files', p)
        /\ DictGet(added_files', p) >= DictGet(added_files, p)

C26_RegistryOnlyGrows == [][C26_StepKeepsRegistry]_vars

\* The second body of length b of path p came after the first of length a.
OfferedInTurn(p, a, b) ==
    \E j, k \in 1..MergedCount :
        /\ j < k
        /\ Supplies(EntriesOf(j), p) /\ BLen(ReadEntry(EntriesOf(j), p)) = a
        /\ Supplies(EntriesOf(k), p) /\ BLen(ReadEntry(EntriesOf(k), p)) = b

\* A recorded path was offered with a larger body and, after that, with a
\* smaller one, and the registry holds the larger size.
C26_Witness ==
    \E p \in DictKeys(added_files) : \E a, b, c \in SizesSeen(p) :
        /\ a < b /\ c < b
        /\ OfferedInTurn(p, a, b) /\ OfferedInTurn(p, b, c)
        /\ DictGet(added_files, p) = b

(***************************************************************************)
(* C27.  Repair and navigation exclusion are decided when a page body is   *)
(* stored and never afterwards.  No step changes an item or a spine entry  *)
(* that exists, and a path gets a new item only from a fragment whose body *)
(* is strictly larger than the recorded one; so at the end a page is what  *)
(* the layout and the stylesheets of the moment of its storing made of it  *)
(* (unrepaired if the layout was unset or no companion stylesheet was      *)
(* accumulated then), and a navigation page stored before the layout was   *)
(* pre-paginated is in the spine, whatever later fragments supplied.       *)
(***************************************************************************)
\* The layout known after the first k fragments: that of the first package
\* document among them, unset when it names none.
LayoutUpTo(k) ==
    LET with == {j \in 1..k : OpfNames(EntriesOf(j)) # {}}
        first == CHOOSE j \in with : \A i \in with : j <= i
        layout == extract_opf_metadata(ParseXml(OpfContent(EntriesOf(first)))).rendition_layout
    IN  IF with # {} /\ Truthy(layout) THEN layout ELSE NoneVal

\* The fragments of the run that hold the path, the first of them, and the
\* one whose body is kept: the first with the largest body.
Suppliers(p) == {k \in 1..Len(files) : Supplies(EntriesOf(k), p)}
FirstSupplier(p) == CHOOSE k \in Suppliers(p) : \A j \in Suppliers(p) : k <= j
KeptFrom(p) ==
    CHOOSE k \in Suppliers(p) :
        /\ \A j \in Suppliers(p) : BLen(ReadEntry(EntriesOf(j), p)) <= BLen(ReadEntry(EntriesOf(k), p))
        /\ \A j \in Suppliers(p) :
              BLen(ReadEntry(EntriesOf(j), p)) = BLen(ReadEntry(EntriesOf(k), p)) => k <= j

C27_StepLeavesStoredPages ==
    /\ Len(items') >= Len(items) /\ SubSeq(items', 1, Len(items)) = items
    /\ Len(spine') >= Len(spine) /\ SubSeq(spine', 1, Len(spine)) = spine
    /\ \A p \in DictKeys(added_files) :
          ItemsNamed(items', p) # ItemsNamed(items, p) =>
              /\ pc = "merge" /\ Supplies(EntriesOf(idx), p)
              /\ BLen(ReadEntry(EntriesOf(idx), p)) > DictGet(added_files, p)

C27_AsDecidedWhenStored ==
    pc = "done" =>
        \A p \in DictKeys(added_files) :
            IsHtml(p) =>
                /\ StoredBody(items, p) =
                      PageContent(p, ReadEntry(EntriesOf(KeptFrom(p)), p),
                                  LayoutUpTo(KeptFrom(p)), CssUpTo(KeptFrom(p)))
                /\ (IsNav(p) /\ LayoutUpTo(FirstSupplier(p)) # "pre-paginated") =>
                      \E i \in 1..Len(spine) : items[spine[i].item].file_name = p

C28_SizeOfSuppliedBody ==
    \A p \in DictKeys(added_files) :
        IsHtml(p) =>
            \E k \in 1..MergedCount :
                /\ Supplies(EntriesOf(k), p)
                /\ DictGet(added_files, p) = BLen(ReadEntry(EntriesOf(k), p))
                /\ StoredBody(items, p) =
                      PageContent(p, ReadEntry(EntriesOf(k), p), LayoutUpTo(k), CssUpTo(k))

C28_DecidedOnSuppliedSizes ==
    (pc = "merge" /\ pc' # "raised") =>
        \A p \in DictKeys(added_files) :
            (IsHtml(p) /\ Supplies(EntriesOf(idx), p)) =>
                ( (ItemsNamed(items', p) # ItemsNamed(items, p))
                  <=> BLen(ReadEntry(EntriesOf(idx), p)) > DictGet(added_files, p) )

C28_RawSizeRecorded == [](C28_SizeOfSuppliedBody) /\ [][C28_DecidedOnSuppliedSizes]_vars

\* A repaired page was stored, longer than the size recorded for its
\* path, and the body of a later fragment, longer than the recorded size
\* and shorter than the stored content, has taken its place.
C28_Witness ==
    \E n \in ItemsNamed(items, Page1) : \E j, k \in 1..MergedCount :
        /\ j < k
        /\ Supplies(EntriesOf(j), Page1) /\ Supplies(EntriesOf(k), Page1)
        /\ items[n].content # ReadEntry(EntriesOf(j), Page1)
        /\ items[n].content =
              PageContent(Page1, ReadEntry(EntriesOf(j), Page1), LayoutUpTo(j), CssUpTo(j))
        /\ BLen(ReadEntry(EntriesOf(j), Page1)) < BLen(ReadEntry(EntriesOf(k), Page1))
        /\ BLen(ReadEntry(EntriesOf(k), Page1)) < BLen(items[n].content)
        /\ StoredBody(items, Page1) = ReadEntry(EntriesOf(k), Page1)

(***************************************************************************)
(* C29.  For a well-formed package document that has no metadata element,  *)
(* _extract_opf_metadata returns every field unset and no spine            *)
(* properties: the manifest and the spine are not looked at, even when the *)
(* manifest has a cover-image item and the spine has item references with  *)
(* properties.                                                             *)
(***************************************************************************)
\* The document has a manifest item with the cover-image property and a
\* spine item reference with properties.
NamesCoverAndSpread(doc) ==
    /\ doc.manifest = "opf" /\ doc.spine = "opf"
    /\ \E i \in 1..Len(doc.items) :
          doc.items[i].properties \in CoverImageProps /\ doc.items[i].href # NonePath
    /\ \E i \in 1..Len(doc.itemrefs) :
          /\ Truthy(doc.itemrefs[i].properties)
          /\ \E j \in 1..Len(doc.items) : doc.items[j].id = doc.itemrefs[i].idref

C29_NoMetadataNothingExtracted ==
    (opf_extracted /\ DocumentRead.ok /\ DocumentRead.metadata = "none") =>
        /\ opf_metadata.rendition_layout = NoneVal
        /\ opf_metadata.rendition_spread = NoneVal
        /\ opf_metadata.rendition_orientation = NoneVal
        /\ opf_metadata.cover_id = NoneVal
        /\ opf_metadata.cover_href = NonePath
        /\ opf_metadata.spine_properties = <<>>
        /\ metadata = NoMetadata /\ spine_properties = <<>>
        /\ pc # "done" => cover_href = NonePath

\* Such a document, with a cover-image item and a spine property, has been
\* read, and a fragment with a complete package document came after it.
C29_Witness ==
    /\ opf_extracted /\ DocumentRead.ok /\ DocumentRead.metadata = "none"
    /\ NamesCoverAndSpread(DocumentRead)
    /\ \E k \in 1..MergedCount :
          /\ k > FirstWithOpf /\ OpfNames(EntriesOf(k)) # {}
          /\ Truthy(extract_opf_metadata(ParseXml(OpfContent(EntriesOf(k)))).rendition_layout)

(***************************************************************************)
(* C30.  One package document per run: the first ".opf" entry of the first *)
(* fragment that has one.  Before such a fragment is merged nothing is     *)
(* extracted; afterwards what was extracted, and the layout, spread,       *)
(* orientation, cover and spine properties of the run, are those of that   *)
(* document alone, and no step changes them, whether another document      *)
(* stands in the same or in a later fragment.  So when that document is    *)
(* malformed or yields no field, the run ends with no rendition metadata.  *)
(***************************************************************************)
\* The first ".opf" entry of the k-th fragment, extracted.
FirstDocumentOf(k) ==
    LET entries == EntriesOf(k)
        first == CHOOSE i \in OpfNames(entries) : \A j \in OpfNames(entries) : i <= j
    IN  extract_opf_metadata(ParseXml(entries[first].content))

\* The merged fragments that hold a package document.
MergedWithOpf == {k \in 1..MergedCount : OpfNames(EntriesOf(k)) # {}}

C30_OnlyTheFirstDocument ==
    IF MergedWithOpf = {}
    THEN ~opf_extracted /\ opf_metadata = EmptyOpfResult /\ metadata = NoMetadata
            /\ spine_properties = <<>>
    ELSE LET doc == FirstDocumentOf(CHOOSE k \in MergedWithOpf : \A j \in MergedWithOpf : k <= j)
         IN  /\ opf_extracted /\ opf_metadata = doc
             /\ metadata.rendition_layout = doc.rendition_layout
             /\ metadata.rendition_spread = doc.rendition_spread
             /\ metadata.rendition_orientation = doc.rendition_orientation
             /\ spine_properties = doc.spine_properties
             /\ pc # "done" => cover_href = doc.cover_href
             /\ (doc = EmptyOpfResult /\ pc = "done") => out_metadata = <<>>

C30_ReadOnce ==
    opf_extracted =>
        /\ opf_extracted' /\ opf_metadata' = opf_metadata
        /\ metadata' = metadata /\ spine_properties' = spine_properties

C30_OneDocumentPerRun == [](C30_OnlyTheFirstDocument) /\ [][C30_ReadOnce]_vars

\* The run is over; the document read was malformed, a second document
\* stands in the same fragment and a later fragment holds a third one, both
\* naming a layout; the run has no rendition metadata.
C30_Witness ==
    /\ pc = "done"
    /\ MergedWithOpf # {}
    /\ Unparseable(OpfContent(EntriesOf(FirstWithOpf)))
    /\ Cardinality(OpfNames(EntriesOf(FirstWithOpf))) > 1
    /\ \E i \in OpfNames(EntriesOf(FirstWithOpf)) :
          Truthy(extract_opf_metadata(ParseXml(EntriesOf(FirstWithOpf)[i].content)).rendition_layout)
    /\ \E k \in MergedWithOpf : k > FirstWithOpf /\ Truthy(FirstDocumentOf(k).rendition_layout)
    /\ out_metadata = <<>>

=============================================================================
